---- MODULE Spec2Model ----
(***************************************************************************)
(* A model of the truthtracer scraping pipeline: the staged executor with  *)
(* per-stage retry (PipelineStage.execute), the seven stage processors of  *)
(* ScrapingPipeline, the lazily created browser handle (DynamicScraper),   *)
(* and the background analysis tasks of main.py that share the            *)
(* controller, the pipeline and the search-scraper singleton.              *)
(***************************************************************************)
EXTENDS Integers, Sequences, FiniteSets, TLC

VARIABLES
    \* ---- ScrapingPipeline object (persists across scrape() calls)
    max_retries,        \* ScrapingPipeline.max_retries (MAX_RETRIES of the environment)
    retry_delay,        \* PipelineStage.retry_delay of each stage, indexed by stage position
    dynamic_scraper,    \* ScrapingPipeline._dynamic_scraper: the DynamicScraper, its driver
                        \* and the browser instance its constructor started
    \* ---- one scrape() call
    context,            \* the context dict of the run
    pc,                 \* "idle" | "running" | "done"
    stage,              \* position in self.stages of the stage being executed
    attempt,            \* the local variable attempt of PipelineStage.execute
    result,             \* what scrape() returned
    runs,               \* scrape() calls started so far
    \* ---- what happened in the current run (observation only)
    calls,              \* processor invocations per stage
    sleeps,             \* time.sleep arguments per stage, in order
    fetch_log,          \* DynamicScraper.get_page_content invocations of the run
    created,            \* browser instances created during the run
    static_doc,         \* what StaticScraper.get_page_content returned in the run
    failed_stage,       \* position of the stage whose execute returned False, or 0
    \* ---- a single PipelineStage executed on its own
    st,
    \* ---- DynamicScraper.cleanup called on its own
    ds,
    \* ---- concurrent analysis tasks (main.py)
    an,
    \* ---- a function applied on its own: its name, arguments and value
    fn

pvars == <<max_retries, retry_delay, dynamic_scraper, context, pc, stage,
           attempt, result, runs, calls, sleeps, fetch_log, created, static_doc,
           failed_stage>>
vars == <<pvars, st, ds, an, fn>>

-----------------------------------------------------------------------------
(* Bounds of the model *)

MaxRuns == 2            \* scrape() calls on one ScrapingPipeline
MaxRetriesCfg == 3      \* MAX_RETRIES ranges over 0..MaxRetriesCfg in SpecCfg
MaxStageRetries == 5    \* retry_attempts of the stand-alone stage: 0..MaxStageRetries
MaxInitialDelay == 30   \* its retry_delay at construction: 0..MaxInitialDelay
MaxExecutes == 2        \* execute() calls on the stand-alone stage
MaxScrapers == 2        \* DynamicScraper objects constructed in SpecScraper
MaxFetches == 1         \* get_page_content calls per object in SpecScraper
MaxCleanups == 2        \* explicit cleanup() calls per object in SpecScraper
MaxTasks == 2           \* analyses started in SpecTasks
MaxRefs == 1            \* reference articles a search returns: 0..MaxRefs
MaxParams == 2          \* query parameters of a URL given to normalise_url
MaxSlashes == 2         \* trailing slashes of a URL given to normalise_url
MaxItems == 3           \* news items of a results page
MaxNumResults == 2      \* num_results of a search call: 0..MaxNumResults
MaxSpan == 42           \* publication dates: the MaxSpan days after FirstDate
MaxAge == 10            \* the current date is at most MaxAge days after publication
MaxAnalyses == 1        \* analyses started in SpecAnalyses
MaxSearches == 3        \* searches on the GoogleSearchScraper singleton
MaxConstructions == 3   \* GoogleSearchScraper() calls on the singleton
MaxBrowserItems == 2    \* news items of a document the browser returns
MaxCandidates == 2      \* semantic elements of a document given to ContentExtractor
MaxParagraphs == 2      \* <p> elements of a document given to ContentExtractor

(* Program constants *)

DefaultMaxRetries == 3  \* MAX_RETRIES when the environment does not set it
DefaultRetryDelay == 2  \* PipelineStage.__init__ retry_delay default
DynamicRetryDelay == 3  \* retry_delay of the dynamic_scraping stage
MinContentLength == 300
MinParagraphLength == 40
MaxRetryDelay == 30     \* cap of the doubled delay

Min(a, b) == IF a <= b THEN a ELSE b

-----------------------------------------------------------------------------
(* URLs.  A URL is its network location (a sequence of characters) and the *)
(* rest; the empty string is EmptyUrl.                                     *)

EmptyUrl == [netloc |-> <<>>, rest |-> ""]
ExampleUrl == [netloc |-> <<"w","w","w",".","e","x",".","c","o","m">>, rest |-> "/a"]
MsnbcUrl == [netloc |-> <<"w","w","w",".","m","s","n","b","c",".","c","o","m">>, rest |-> "/b"]
NoSchemeUrl == [netloc |-> <<>>, rest |-> "ex.com/a"]
Urls == {EmptyUrl, ExampleUrl, MsnbcUrl, NoSchemeUrl}

IsPrefix(p, s) == Len(p) <= Len(s) /\ SubSeq(s, 1, Len(p)) = p
IsSubstring(p, s) == \E i \in 1..(Len(s) + 1) : IsPrefix(p, SubSeq(s, i, Len(s)))

\* str.lower on one character
LowerChar(c) ==
    CASE c = "A" -> "a"
      [] c = "B" -> "b"
      [] c = "C" -> "c"
      [] c = "D" -> "d"
      [] c = "E" -> "e"
      [] c = "F" -> "f"
      [] c = "G" -> "g"
      [] c = "H" -> "h"
      [] c = "I" -> "i"
      [] c = "J" -> "j"
      [] c = "K" -> "k"
      [] c = "L" -> "l"
      [] c = "M" -> "m"
      [] c = "N" -> "n"
      [] c = "O" -> "o"
      [] c = "P" -> "p"
      [] c = "Q" -> "q"
      [] c = "R" -> "r"
      [] c = "S" -> "s"
      [] c = "T" -> "t"
      [] c = "U" -> "u"
      [] c = "V" -> "v"
      [] c = "W" -> "w"
      [] c = "X" -> "x"
      [] c = "Y" -> "y"
      [] c = "Z" -> "z"
      [] OTHER -> c

\* str.lower
lower(s) == [i \in 1..Len(s) |-> LowerChar(s[i])]

\* text_utils.extract_domain: netloc, lower-cased, a leading "www." removed
extract_domain(url) ==
    IF url = EmptyUrl THEN <<>>
    ELSE LET domain == lower(url.netloc)
         IN IF IsPrefix(<<"w","w","w",".">>, domain)
            THEN SubSeq(domain, 5, Len(domain))
            ELSE domain

BLOCKED_DOMAINS ==
    { <<"m","s","n",".","c","o","m">>,
      <<"m","s","n","b","c",".","c","o","m">>,
      <<"t","e","l","e","g","r","a","p","h",".","c","o",".","u","k">> }

\* DomainRules.is_blocked: any(blocked in domain ...), a substring test
is_blocked(domain) == \E b \in BLOCKED_DOMAINS : IsSubstring(b, domain)

-----------------------------------------------------------------------------
(* URLs as strings.  A Python str is a sequence of one-character strings, *)
(* so that split, lower, endswith and "in" are computed as Python does.   *)

\* str.find(c) + 1: the first position of the character c in s, 0 when absent
IndexOf(s, c) ==
    IF \E i \in 1..Len(s) : s[i] = c
    THEN CHOOSE i \in 1..Len(s) : s[i] = c /\ \A j \in 1..(i - 1) : s[j] # c
    ELSE 0

\* str.split(c): every piece between occurrences of c
RECURSIVE split(_, _)
split(s, c) ==
    LET i == IndexOf(s, c)
    IN IF i = 0 THEN <<s>>
       ELSE <<SubSeq(s, 1, i - 1)>> \o split(SubSeq(s, i + 1, Len(s)), c)

\* str.split(c, 1) where c occurs in s: the text before and after the first c
split1(s, c) ==
    LET i == IndexOf(s, c)
    IN <<SubSeq(s, 1, i - 1), SubSeq(s, i + 1, Len(s))>>

\* c.join(parts)
RECURSIVE join(_, _)
join(parts, c) ==
    IF parts = <<>> THEN <<>>
    ELSE IF Len(parts) = 1 THEN parts[1]
    ELSE parts[1] \o <<c>> \o join(Tail(parts), c)

\* str.endswith(c) for one character
endswith(s, c) == Len(s) > 0 /\ s[Len(s)] = c

\* str.startswith(p)
startswith(s, p) == IsPrefix(p, s)
\* normalise_url: tracking_params
tracking_params ==
    { <<"u","t","m","_","s","o","u","r","c","e">>,
      <<"u","t","m","_","m","e","d","i","u","m">>,
      <<"u","t","m","_","c","a","m","p","a","i","g","n">>,
      <<"u","t","m","_","t","e","r","m">>,
      <<"u","t","m","_","c","o","n","t","e","n","t">>,
      <<"f","b","c","l","i","d">>,
      <<"g","c","l","i","d">>,
      <<"r","e","f">>,
      <<"r","e","f","_","s","r","c">>,
      <<"r","e","f","_","u","r","l">>,
      <<"s","o","u","r","c","e">>,
      <<"s","o","u","r","c","e","_","i","d">> }

\* normalise_url: the filter of the query parameters, one parameter at a time
keep_param(param) ==
    IF IndexOf(param, "=") # 0
    THEN lower(split1(param, "=")[1]) \notin tracking_params
    ELSE TRUE

\* text_utils.normalise_url
normalise_url(url) ==
    IF url = <<>> THEN <<>>
    ELSE LET u1 == split(url, "#")[1]
             u2 == IF IndexOf(u1, "?") # 0
                   THEN LET base_url == split1(u1, "?")[1]
                            query == split1(u1, "?")[2]
                            params == split(query, "&")
                            filtered_params == SelectSeq(params, keep_param)
                        IN IF filtered_params # <<>>
                           THEN base_url \o <<"?">> \o join(filtered_params, "&")
                           ELSE base_url
                   ELSE u1
         IN IF endswith(u2, "/") THEN SubSeq(u2, 1, Len(u2) - 1) ELSE u2

\* urllib.parse.urlparse(url).netloc: after the scheme and its ":", if any,
\* what stands between a leading "//" and the next "/", "?" or "#"
urlparse_netloc(url) ==
    LET i == IndexOf(url, ":")
        noscheme == SubSeq(url, i + 1, Len(url))
        after == SubSeq(noscheme, 3, Len(noscheme))
        ends == {j \in 1..Len(after) : after[j] \in {"/", "?", "#"}}
        stop == IF ends = {} THEN Len(after) + 1
                ELSE CHOOSE j \in ends : \A k \in ends : j <= k
    IN IF startswith(noscheme, <<"/", "/">>)
       THEN SubSeq(after, 1, stop - 1)
       ELSE <<>>

\* text_utils.extract_domain applied to a str
extract_domain_str(url) ==
    IF url = <<>> THEN <<>>
    ELSE extract_domain([netloc |-> urlparse_netloc(url), rest |-> "path"])

-----------------------------------------------------------------------------
(* Documents (BeautifulSoup objects) and content records *)

\* None in place of a document
NoDoc == [src |-> "none", meaningful |-> FALSE, js |-> FALSE, body |-> "none", handle |-> 0]

\* what a static fetch can parse: has_meaningful_content and requires_javascript
\* are functions of the document, kept here as its attributes
StaticDocs == { [src |-> "static", meaningful |-> mf, js |-> j, body |-> "page", handle |-> 0] :
                mf \in BOOLEAN, j \in BOOLEAN }

\* a BeautifulSoup object is truthy whatever it holds (Tag.__bool__); None is not
Truthy(doc) == doc.src # "none"

has_meaningful_content(doc) == Truthy(doc) /\ doc.meaningful

NoContent == [kind |-> "none", headline |-> "", author |-> "", publishDate |-> "", text |-> ""]

\* dict truthiness: the record of extract_content always has keys
ContentTruthy(c) == c.kind # "none"

StageNames == << "domain_analysis", "static_scraping", "dynamic_scraping",
                 "content_extraction", "metadata_extraction", "content_cleaning",
                 "content_validation" >>
StageIdx == 1..Len(StageNames)

\* ScrapingPipeline._define_pipeline: retry_attempts of each stage
RetryAttempts(name, mr) ==
    CASE name = "domain_analysis" -> 0
      [] name = "static_scraping" -> Min(1, mr)
      [] name = "dynamic_scraping" -> Min(2, mr)
      [] name = "content_extraction" -> Min(1, mr)
      [] name = "metadata_extraction" -> 1
      [] name = "content_cleaning" -> 0
      [] name = "content_validation" -> 0
      [] OTHER -> 0

\* ScrapingPipeline._define_pipeline: retry_delay each stage is constructed with
InitialRetryDelay(name) ==
    IF name = "dynamic_scraping" THEN DynamicRetryDelay ELSE DefaultRetryDelay

\* scrape(): the fresh context; a key that is absent reads as False / None
NewContext(url) ==
    [ url |-> url, domain |-> <<>>, soup |-> NoDoc, content |-> NoContent,
      static_failed |-> FALSE, requires_dynamic |-> FALSE, dynamic_failed |-> FALSE,
      dynamic_skipped |-> FALSE, blocked |-> FALSE, skip_remaining_stages |-> FALSE,
      validated |-> FALSE,
      results |-> [i \in StageIdx |-> "absent"] ]

\* _dynamic_scraper is None (present = FALSE) or a DynamicScraper: driver is 1
\* while self.driver refers to the browser and 0 once it is None; quits counts
\* the quit() requests sent to the object's browser, live is whether it runs
NoScraper == [present |-> FALSE, driver |-> 0, quits |-> 0, live |-> FALSE]
NewScraper == [present |-> TRUE, driver |-> 1, quits |-> 0, live |-> TRUE]

\* the state a processor can read and change
Machine == [ context |-> context, dynamic_scraper |-> dynamic_scraper,
             fetch_log |-> fetch_log, created |-> created, static_doc |-> static_doc ]

Returned(m, res) == [raised |-> FALSE, result |-> res, m |-> m]
Raised(m) == [raised |-> TRUE, result |-> "None", m |-> m]

-----------------------------------------------------------------------------
(* DynamicScraper *)

\* ScrapingPipeline.dynamic_scraper (property): the DynamicScraper is constructed,
\* and its browser with it, only when _dynamic_scraper is None; the construction
\* can fail (create_ok = FALSE), which leaves _dynamic_scraper None and raises
dynamic_scraper_property(m, create_ok) ==
    IF m.dynamic_scraper.present THEN [raised |-> FALSE, m |-> m]
    ELSE IF create_ok
         THEN [raised |-> FALSE,
               m |-> [m EXCEPT !.dynamic_scraper = NewScraper, !.created = @ + 1]]
         ELSE [raised |-> TRUE, m |-> m]

\* DynamicScraper.get_page_content: None for an empty url; otherwise a document,
\* also on the exception path.  With driver None both self.driver.get and
\* self.driver.html raise AttributeError and the empty document is returned.
get_page_content(scraper, url, page) ==
    IF url = EmptyUrl THEN NoDoc
    ELSE IF scraper.driver # 0
         THEN [src |-> "dynamic", meaningful |-> FALSE, js |-> FALSE, body |-> page,
               handle |-> scraper.driver]
         ELSE [src |-> "dynamic", meaningful |-> FALSE, js |-> FALSE, body |-> "empty",
               handle |-> 0]

\* the same call, with the invocation recorded
FetchWith(m, page) ==
    [ doc |-> get_page_content(m.dynamic_scraper, m.context.url, page),
      m |-> [m EXCEPT !.fetch_log =
                Append(@, [driver |-> m.dynamic_scraper.driver,
                           live |-> m.dynamic_scraper.driver # 0 /\ m.dynamic_scraper.live,
                           fresh |-> m.dynamic_scraper.driver # 0 /\ m.dynamic_scraper.quits = 0,
                           navigated |-> m.context.url # EmptyUrl])] ]

\* mutant: the reference is dropped only when quit succeeded
dynamic_cleanup_keep_on_error(s, quit_ok) ==
    IF s.driver # 0
    THEN [s EXCEPT !.driver = IF quit_ok THEN 0 ELSE @, !.quits = @ + 1,
                   !.live = IF quit_ok THEN FALSE ELSE @]
    ELSE s

\* DynamicScraper.cleanup: quit is requested when the driver is set; whether or
\* not quit raises, the reference is dropped; cleanup itself never raises
dynamic_cleanup(s, quit_ok) ==
    IF s.driver # 0
    THEN [s EXCEPT !.driver = 0, !.quits = @ + 1, !.live = IF quit_ok THEN FALSE ELSE @]
    ELSE s

CleanupIn(m, quit_ok) ==
    [m EXCEPT !.dynamic_scraper = dynamic_cleanup(@, quit_ok)]

-----------------------------------------------------------------------------
(* Stage processors and error handlers of ScrapingPipeline *)

process_domain_analysis(m) ==
    LET domain == extract_domain(m.context.url)
        c1 == [m.context EXCEPT !.domain = domain]
    IN IF is_blocked(domain)
       THEN Returned([m EXCEPT !.context = [c1 EXCEPT !.blocked = TRUE,
                                                      !.skip_remaining_stages = TRUE]], "blocked")
       ELSE Returned([m EXCEPT !.context = c1], "domain")

\* StaticScraper.get_page_content: net is what the network and the parser do;
\* a url without scheme or host makes requests raise a RequestException
StaticFetchOutcomes ==
    { [kind |-> "doc", soup |-> d] : d \in StaticDocs }
    \cup { [kind |-> "request_error", soup |-> NoDoc], [kind |-> "other_error", soup |-> NoDoc] }

static_get_page_content(url, net) ==
    IF url.netloc = <<>> THEN [raised |-> FALSE, soup |-> NoDoc, requires_js |-> FALSE]
    ELSE IF net.kind = "doc" THEN [raised |-> FALSE, soup |-> net.soup, requires_js |-> net.soup.js]
    ELSE IF net.kind = "request_error" THEN [raised |-> FALSE, soup |-> NoDoc, requires_js |-> FALSE]
    ELSE [raised |-> TRUE, soup |-> NoDoc, requires_js |-> FALSE]

\* mutant: a fetch that returned no document is reported as a success
process_static_scraping_no_raise(m, net) ==
    LET f == static_get_page_content(m.context.url, net)
        m0 == [m EXCEPT !.static_doc = f.soup]
    IN IF f.raised THEN Raised(m0)
       ELSE IF Truthy(f.soup)
       THEN LET c1 == [m.context EXCEPT !.soup = f.soup]
            IN IF has_meaningful_content(f.soup)
               THEN Returned([m0 EXCEPT !.context = c1], "success")
               ELSE IF f.requires_js
               THEN Returned([m0 EXCEPT !.context = [c1 EXCEPT !.requires_dynamic = TRUE,
                                                               !.static_failed = TRUE]], "failed")
               ELSE Returned([m0 EXCEPT !.context = c1], "success")
       ELSE Returned(m0, "success")

\* mutant: every page without meaningful content escalates
process_static_scraping_escalate_thin(m, net) ==
    LET f == static_get_page_content(m.context.url, net)
        m0 == [m EXCEPT !.static_doc = f.soup]
    IN IF f.raised THEN Raised(m0)
       ELSE IF Truthy(f.soup)
       THEN LET c1 == [m.context EXCEPT !.soup = f.soup]
            IN IF has_meaningful_content(f.soup)
               THEN Returned([m0 EXCEPT !.context = c1], "success")
               ELSE Returned([m0 EXCEPT !.context = [c1 EXCEPT !.requires_dynamic = TRUE,
                                                               !.static_failed = TRUE]], "failed")
       ELSE Raised([m0 EXCEPT !.context = [@ EXCEPT !.static_failed = TRUE,
                                                    !.requires_dynamic = TRUE]])

\* mutant: the JavaScript heuristic consulted before has_meaningful_content
process_static_scraping_js_first(m, net) ==
    LET f == static_get_page_content(m.context.url, net)
        m0 == [m EXCEPT !.static_doc = f.soup]
    IN IF f.raised THEN Raised(m0)
       ELSE IF Truthy(f.soup)
       THEN LET c1 == [m.context EXCEPT !.soup = f.soup]
            IN IF f.requires_js
               THEN Returned([m0 EXCEPT !.context = [c1 EXCEPT !.requires_dynamic = TRUE,
                                                               !.static_failed = TRUE]], "failed")
               ELSE Returned([m0 EXCEPT !.context = c1], "success")
       ELSE Raised([m0 EXCEPT !.context = [@ EXCEPT !.static_failed = TRUE,
                                                    !.requires_dynamic = TRUE]])

\* mutant: a JavaScript page sets requires_dynamic but not static_failed
process_static_scraping_no_flag(m, net) ==
    LET f == static_get_page_content(m.context.url, net)
        m0 == [m EXCEPT !.static_doc = f.soup]
    IN IF f.raised THEN Raised(m0)
       ELSE IF Truthy(f.soup)
       THEN LET c1 == [m.context EXCEPT !.soup = f.soup]
            IN IF has_meaningful_content(f.soup)
               THEN Returned([m0 EXCEPT !.context = c1], "success")
               ELSE IF f.requires_js
               THEN Returned([m0 EXCEPT !.context = [c1 EXCEPT !.requires_dynamic = TRUE]],
                             "failed")
               ELSE Returned([m0 EXCEPT !.context = c1], "success")
       ELSE Raised([m0 EXCEPT !.context = [@ EXCEPT !.static_failed = TRUE,
                                                    !.requires_dynamic = TRUE]])

process_static_scraping(m, net) ==
    LET f == static_get_page_content(m.context.url, net)
        m0 == [m EXCEPT !.static_doc = f.soup]
    IN IF f.raised THEN Raised(m0)
       ELSE IF Truthy(f.soup)
       THEN LET c1 == [m.context EXCEPT !.soup = f.soup]
            IN IF has_meaningful_content(f.soup)
               THEN Returned([m0 EXCEPT !.context = c1], "success")
               ELSE IF f.requires_js
               THEN Returned([m0 EXCEPT !.context = [c1 EXCEPT !.requires_dynamic = TRUE,
                                                               !.static_failed = TRUE]], "failed")
               ELSE Returned([m0 EXCEPT !.context = c1], "success")
       ELSE Raised([m0 EXCEPT !.context = [@ EXCEPT !.static_failed = TRUE,
                                                    !.requires_dynamic = TRUE]])

\* mutant: the handler marks the failure but does not report it handled
handle_static_scraping_error_unhandled(ctx) ==
    [handled |-> FALSE, context |-> [ctx EXCEPT !.static_failed = TRUE]]

handle_static_scraping_error(ctx) ==
    [handled |-> TRUE, context |-> [ctx EXCEPT !.static_failed = TRUE]]

\* env: create_ok (try block), create_ok2 (except block), page, quit_ok
DynamicEnv == [create_ok : BOOLEAN, create_ok2 : BOOLEAN, page : {"page", "empty"},
               quit_ok : BOOLEAN]

\* the except block of _process_dynamic_scraping
DynamicExcept(m, env) ==
    LET m1 == [m EXCEPT !.context.dynamic_failed = TRUE]
        p == dynamic_scraper_property(m1, env.create_ok2)
    IN IF p.raised THEN Raised(p.m) ELSE Raised(CleanupIn(p.m, env.quit_ok))

\* mutant: the success path returns without cleaning the browser up
process_dynamic_scraping_no_cleanup(m, env) ==
    IF ~m.context.static_failed
    THEN Returned([m EXCEPT !.context.dynamic_skipped = TRUE], "skipped")
    ELSE LET p == dynamic_scraper_property(m, env.create_ok)
         IN IF p.raised THEN DynamicExcept(p.m, env)
            ELSE LET f == FetchWith(p.m, env.page)
                 IN IF ~Truthy(f.doc) THEN DynamicExcept(f.m, env)
                    ELSE Returned([f.m EXCEPT !.context.soup = f.doc], "success")

\* mutant: the dynamic stage does not store the document it fetched
process_dynamic_scraping_keep_soup(m, env) ==
    IF ~m.context.static_failed
    THEN Returned([m EXCEPT !.context.dynamic_skipped = TRUE], "skipped")
    ELSE LET p == dynamic_scraper_property(m, env.create_ok)
         IN IF p.raised THEN DynamicExcept(p.m, env)
            ELSE LET f == FetchWith(p.m, env.page)
                 IN IF ~Truthy(f.doc) THEN DynamicExcept(f.m, env)
                    ELSE Returned(CleanupIn(f.m, env.quit_ok), "success")

process_dynamic_scraping(m, env) ==
    IF ~m.context.static_failed
    THEN Returned([m EXCEPT !.context.dynamic_skipped = TRUE], "skipped")
    ELSE LET p == dynamic_scraper_property(m, env.create_ok)
         IN IF p.raised THEN DynamicExcept(p.m, env)
            ELSE LET f == FetchWith(p.m, env.page)
                 IN IF ~Truthy(f.doc) THEN DynamicExcept(f.m, env)
                    ELSE Returned(CleanupIn([f.m EXCEPT !.context.soup = f.doc], env.quit_ok),
                                  "success")

\* mutant: the handler reports the failure handled (a blind recovery)
handle_dynamic_scraping_error_recover(ctx) ==
    [handled |-> TRUE, context |-> ctx]

handle_dynamic_scraping_error(ctx) ==
    [handled |-> FALSE, context |-> ctx]

\* ContentExtractor.extract_content: a record with every key, text possibly ""
ExtractEnv == [raises : BOOLEAN, text : {"", "body"}]

extract_content(soup, env) ==
    [kind |-> "dict", headline |-> "", author |-> "", publishDate |-> "",
     text |-> IF soup.body = "page" THEN env.text ELSE ""]

process_content_extraction(m, env) ==
    IF ~Truthy(m.context.soup) THEN Raised(m)
    ELSE IF env.raises THEN Raised(m)
    ELSE LET content == extract_content(m.context.soup, env)
         IN IF ~ContentTruthy(content) THEN Raised(m)
            ELSE Returned([m EXCEPT !.context.content = content], "extracted")

MetadataFields == {"headline", "author", "publishDate"}

\* what one extraction tier finds in a document, per field ("" = nothing)
Found(h, a, d) == [headline : h, author : a, publishDate : d]

\* the environment of extract_metadata: what the HTML strategies (schema.org,
\* meta tags, selectors) find, whether NER can run (text for NER and the
\* spaCy model are available), and what NER finds.  In a pipeline run the
\* value a field gets is the same whichever tier produced it, and every
\* combination of filled and empty fields already arises from the HTML
\* strategies, so NER there either cannot run or fills what is missing.
MetadataEnv == [raises : BOOLEAN, html : Found({"", "H"}, {"", "A"}, {"", "D"}),
                ner_ok : BOOLEAN, ner : Found({"H"}, {"A"}, {"D"})]

\* mutant: the HTML strategies run even when the field is already set
html_tier_overwrite(content, soup, html) ==
    LET found(v) == IF soup.body = "page" THEN v ELSE ""
    IN [content EXCEPT !.headline = IF found(html.headline) # "" THEN found(html.headline) ELSE @,
                       !.author = IF found(html.author) # "" THEN found(html.author) ELSE @,
                       !.publishDate = IF found(html.publishDate) # ""
                                       THEN found(html.publishDate) ELSE @]

\* _extract_headline, _extract_author, _extract_publication_date: each returns
\* at once when its field is already set, otherwise stores what it finds
html_tier(content, soup, html) ==
    LET found(v) == IF soup.body = "page" THEN v ELSE ""
    IN [content EXCEPT !.headline = IF @ # "" THEN @ ELSE found(html.headline),
                       !.author = IF @ # "" THEN @ ELSE found(html.author),
                       !.publishDate = IF @ # "" THEN @ ELSE found(html.publishDate)]

\* the fields still empty after the HTML strategies
missing_fields(content) == {f \in MetadataFields : content[f] = ""}

\* mutant: the NER pass does not depend on a field being missing
ner_pass_always(missing, soup, env) ==
    env.ner_ok /\ soup.body = "page"

\* whether self.nlp(text_for_ner) is called: a field is missing, and the
\* text for NER and the spaCy model are there
ner_pass(missing, soup, env) ==
    missing # {} /\ env.ner_ok /\ soup.body = "page"

\* the NER fallback: only when a field is missing, text and model are there,
\* and only for the missing fields
ner_tier(content, missing, soup, env) ==
    LET run == ner_pass(missing, soup, env)
        fill(f, old) == IF run /\ f \in missing /\ env.ner[f] # "" THEN env.ner[f] ELSE old
    IN [content EXCEPT !.headline = fill("headline", @),
                       !.author = fill("author", @),
                       !.publishDate = fill("publishDate", @)]

\* MetadataExtractor.extract_metadata: content None becomes a dict, absent
\* fields become "", then the HTML strategies, then the NER fallback
extract_metadata(soup, content, env) ==
    LET base == IF ContentTruthy(content) THEN content ELSE [NoContent EXCEPT !.kind = "dict"]
        c1 == html_tier(base, soup, env.html)
    IN ner_tier(c1, missing_fields(c1), soup, env)

\* the calls extract_metadata makes, in order: the three HTML extractors,
\* then the NER pass when it runs
extract_metadata_steps(soup, content, env) ==
    LET base == IF ContentTruthy(content) THEN content ELSE [NoContent EXCEPT !.kind = "dict"]
        c1 == html_tier(base, soup, env.html)
    IN <<"_extract_headline", "_extract_author", "_extract_publication_date">>
       \o (IF ner_pass(missing_fields(c1), soup, env) THEN <<"nlp">> ELSE <<>>)

process_metadata_extraction(m, env) ==
    IF ~Truthy(m.context.soup) THEN Raised(m)
    ELSE IF env.raises THEN Raised(m)
    ELSE Returned([m EXCEPT !.context.content = extract_metadata(m.context.soup, @, env)],
                  "metadata")

\* TextCleaner: cleaning may leave a non-empty string or ""
CleaningEnv == [raises : BOOLEAN, keeps : BOOLEAN]

\* None in place of a string
PyNone == "<None>"

\* mutant: a cleaner returns None when nothing is left of a field
process_content_cleaning_none(m, env) ==
    IF ~ContentTruthy(m.context.content) THEN Raised(m)
    ELSE IF env.raises THEN Raised(m)
    ELSE LET cl(v) == IF v = "" \/ env.keeps THEN v ELSE PyNone
         IN Returned([m EXCEPT !.context.content =
                          [@ EXCEPT !.text = cl(@), !.author = cl(@), !.publishDate = cl(@)]],
                     "cleaned")

process_content_cleaning(m, env) ==
    IF ~ContentTruthy(m.context.content) THEN Raised(m)
    ELSE IF env.raises THEN Raised(m)
    ELSE LET cl(v) == IF env.keeps THEN v ELSE ""
         IN Returned([m EXCEPT !.context.content =
                          [@ EXCEPT !.text = cl(@), !.author = cl(@), !.publishDate = cl(@)]],
                     "cleaned")

\* mutant: a record without text is not validated
process_content_validation_text(m) ==
    IF ~ContentTruthy(m.context.content) \/ m.context.content.text = ""
    THEN Returned([m EXCEPT !.context.validated = FALSE], "invalid")
    ELSE Returned([m EXCEPT !.context.validated = TRUE], "valid")

\* mutant: a record without a headline is not validated
process_content_validation_headline(m) ==
    IF ~ContentTruthy(m.context.content) \/ m.context.content.headline = ""
    THEN Returned([m EXCEPT !.context.validated = FALSE], "invalid")
    ELSE Returned([m EXCEPT !.context.validated = TRUE], "valid")

process_content_validation(m) ==
    IF ~ContentTruthy(m.context.content)
    THEN Returned([m EXCEPT !.context.validated = FALSE], "invalid")
    ELSE Returned([m EXCEPT !.context.validated = TRUE], "valid")

-----------------------------------------------------------------------------
(* PipelineStage.execute and ScrapingPipeline.scrape *)

ErrorHandler(name, ctx) ==
    CASE name = "static_scraping" -> handle_static_scraping_error(ctx)
      [] name = "dynamic_scraping" -> handle_dynamic_scraping_error(ctx)
      [] OTHER -> [handled |-> FALSE, context |-> ctx]      \* error_handler is None

\* mutant: the delay doubles without the cap
Backoff_uncapped(delay) == [slept |-> <<delay>>, retry_delay |-> delay * 2]

\* the sleep and the doubling of PipelineStage.execute: (slept, new delay)
Backoff(delay) == [slept |-> <<delay>>, retry_delay |-> Min(delay * 2, MaxRetryDelay)]

\* mutant: with the budget used up the last exception is raised again
execute_reraise(name, att, retry_attempts, delay, pr) ==
    IF ~pr.raised
    THEN [ret |-> "True", attempt |-> att, retry_delay |-> delay, slept |-> <<>>,
          context |-> pr.m.context, stored |-> pr.result # "None"]
    ELSE LET a == att + 1
             h == ErrorHandler(name, pr.m.context)
         IN IF h.handled
            THEN [ret |-> "True", attempt |-> a, retry_delay |-> delay, slept |-> <<>>,
                  context |-> h.context, stored |-> FALSE]
            ELSE IF a <= retry_attempts
            THEN [ret |-> "retry", attempt |-> a, retry_delay |-> Backoff(delay).retry_delay,
                  slept |-> Backoff(delay).slept, context |-> h.context, stored |-> FALSE]
            ELSE [ret |-> "raise", attempt |-> a, retry_delay |-> delay, slept |-> <<>>,
                  context |-> h.context, stored |-> FALSE]

\* mutant: the loop allows one attempt more than the budget
execute_one_more(name, att, retry_attempts, delay, pr) ==
    IF ~pr.raised
    THEN [ret |-> "True", attempt |-> att, retry_delay |-> delay, slept |-> <<>>,
          context |-> pr.m.context, stored |-> pr.result # "None"]
    ELSE LET a == att + 1
             h == ErrorHandler(name, pr.m.context)
         IN IF h.handled
            THEN [ret |-> "True", attempt |-> a, retry_delay |-> delay, slept |-> <<>>,
                  context |-> h.context, stored |-> FALSE]
            ELSE IF a <= retry_attempts + 1
            THEN [ret |-> "retry", attempt |-> a, retry_delay |-> Backoff(delay).retry_delay,
                  slept |-> Backoff(delay).slept, context |-> h.context, stored |-> FALSE]
            ELSE [ret |-> "False", attempt |-> a, retry_delay |-> delay, slept |-> <<>>,
                  context |-> h.context, stored |-> FALSE]

\* one iteration of the while loop of PipelineStage.execute, given what the
\* processor did (pr): ret is "True" / "False" (execute returns) or "retry"
execute(name, att, retry_attempts, delay, pr) ==
    IF ~pr.raised
    THEN [ret |-> "True", attempt |-> att, retry_delay |-> delay, slept |-> <<>>,
          context |-> pr.m.context, stored |-> pr.result # "None"]
    ELSE LET a == att + 1
             h == ErrorHandler(name, pr.m.context)
         IN IF h.handled
            THEN [ret |-> "True", attempt |-> a, retry_delay |-> delay, slept |-> <<>>,
                  context |-> h.context, stored |-> FALSE]
            ELSE IF a <= retry_attempts
            THEN [ret |-> "retry", attempt |-> a, retry_delay |-> Backoff(delay).retry_delay,
                  slept |-> Backoff(delay).slept, context |-> h.context, stored |-> FALSE]
            ELSE [ret |-> "False", attempt |-> a, retry_delay |-> delay, slept |-> <<>>,
                  context |-> h.context, stored |-> FALSE]

Pending == [kind |-> "pending", content |-> NoContent]
NoneResult == [kind |-> "None", content |-> NoContent]

\* scrape() left by an exception instead of a return
RaisedResult == [kind |-> "raised", content |-> NoContent]

\* the end of scrape(): context.content only if validated
scrape_return(ctx) ==
    IF ctx.validated
    THEN IF ContentTruthy(ctx.content) THEN [kind |-> "content", content |-> ctx.content]
         ELSE NoneResult
    ELSE NoneResult

\* mutant: a failed stage does not end the run
scrape_loop_ignore_failure(i, ret, ctx) ==
    IF ret = "retry"
    THEN [pc |-> "running", stage |-> i, result |-> Pending]
    ELSE IF i = Len(StageNames) \/ ctx.skip_remaining_stages
    THEN [pc |-> "done", stage |-> i, result |-> scrape_return(ctx)]
    ELSE [pc |-> "running", stage |-> i + 1, result |-> Pending]

\* mutant: skip_remaining_stages is not consulted
scrape_loop_no_skip(i, ret, ctx) ==
    IF ret = "retry"
    THEN [pc |-> "running", stage |-> i, result |-> Pending]
    ELSE IF ret = "False"
    THEN [pc |-> "done", stage |-> i, result |-> NoneResult]
    ELSE IF i = Len(StageNames)
    THEN [pc |-> "done", stage |-> i, result |-> scrape_return(ctx)]
    ELSE [pc |-> "running", stage |-> i + 1, result |-> Pending]

\* mutant: after a successful stage the loop steps over the next one
scrape_loop_skip_stage(i, ret, ctx) ==
    IF ret = "retry"
    THEN [pc |-> "running", stage |-> i, result |-> Pending]
    ELSE IF ret = "False"
    THEN [pc |-> "done", stage |-> i, result |-> NoneResult]
    ELSE IF i = Len(StageNames) \/ ctx.skip_remaining_stages
    THEN [pc |-> "done", stage |-> i, result |-> scrape_return(ctx)]
    ELSE [pc |-> "running", stage |-> Min(i + 2, Len(StageNames)), result |-> Pending]

\* the for loop of scrape() after stage i's execute gave ret; the loop has no
\* try block, so an exception leaving execute would leave scrape()
scrape_loop(i, ret, ctx) ==
    IF ret = "raise"
    THEN [pc |-> "done", stage |-> i, result |-> RaisedResult]
    ELSE IF ret = "retry"
    THEN [pc |-> "running", stage |-> i, result |-> Pending]
    ELSE IF ret = "False"
    THEN [pc |-> "done", stage |-> i, result |-> NoneResult]
    ELSE IF i = Len(StageNames) \/ ctx.skip_remaining_stages
    THEN [pc |-> "done", stage |-> i, result |-> scrape_return(ctx)]
    ELSE [pc |-> "running", stage |-> i + 1, result |-> Pending]

RunStage(i, pr) ==
    LET name == StageNames[i]
        ex == execute(name, attempt, RetryAttempts(name, max_retries), retry_delay[i], pr)
        ctx == IF ex.stored THEN [ex.context EXCEPT !.results[i] = pr.result] ELSE ex.context
        nx == scrape_loop(i, ex.ret, ctx)
    IN /\ calls' = [calls EXCEPT ![i] = @ + 1]
       /\ sleeps' = [sleeps EXCEPT ![i] = @ \o ex.slept]
       /\ retry_delay' = [retry_delay EXCEPT ![i] = ex.retry_delay]
       /\ context' = ctx
       /\ dynamic_scraper' = pr.m.dynamic_scraper
       /\ fetch_log' = pr.m.fetch_log
       /\ created' = pr.m.created
       /\ static_doc' = pr.m.static_doc
       /\ attempt' = IF ex.ret = "retry" THEN ex.attempt ELSE 0
       /\ pc' = nx.pc
       /\ stage' = nx.stage
       /\ result' = nx.result
       /\ failed_stage' = IF ex.ret = "False" THEN i ELSE failed_stage
       /\ UNCHANGED <<max_retries, runs, st, ds, an, fn>>

AtStage(name) == pc = "running" /\ StageNames[stage] = name

Scrape ==
    /\ pc \in {"idle", "done"}
    /\ runs < MaxRuns
    /\ \E url \in Urls : context' = NewContext(url)
    /\ pc' = "running"
    /\ stage' = 1
    /\ attempt' = 0
    /\ result' = Pending
    /\ runs' = runs + 1
    /\ calls' = [i \in StageIdx |-> 0]
    /\ sleeps' = [i \in StageIdx |-> <<>>]
    /\ fetch_log' = <<>>
    /\ created' = 0
    /\ static_doc' = NoDoc
    /\ failed_stage' = 0
    /\ UNCHANGED <<max_retries, retry_delay, dynamic_scraper, st, ds, an, fn>>

DomainAnalysis ==
    /\ AtStage("domain_analysis")
    /\ RunStage(stage, process_domain_analysis(Machine))

StaticScraping ==
    /\ AtStage("static_scraping")
    /\ \E net \in StaticFetchOutcomes : RunStage(stage, process_static_scraping(Machine, net))

DynamicScraping ==
    /\ AtStage("dynamic_scraping")
    /\ \E env \in DynamicEnv : RunStage(stage, process_dynamic_scraping(Machine, env))

ContentExtraction ==
    /\ AtStage("content_extraction")
    /\ \E env \in ExtractEnv : RunStage(stage, process_content_extraction(Machine, env))

MetadataExtraction ==
    /\ AtStage("metadata_extraction")
    /\ \E env \in MetadataEnv : RunStage(stage, process_metadata_extraction(Machine, env))

ContentCleaning ==
    /\ AtStage("content_cleaning")
    /\ \E env \in CleaningEnv : RunStage(stage, process_content_cleaning(Machine, env))

ContentValidation ==
    /\ AtStage("content_validation")
    /\ RunStage(stage, process_content_validation(Machine))

\* ScrapingPipeline.cleanup between runs (the context, a local of scrape(), is
\* gone by then): _dynamic_scraper.cleanup() and, the reference being dropped,
\* once more from __del__; then _dynamic_scraper is None
PipelineCleanup ==
    /\ pc = "done"
    /\ dynamic_scraper.present
    /\ \E q1 \in BOOLEAN, q2 \in BOOLEAN :
          /\ dynamic_cleanup(dynamic_cleanup(dynamic_scraper, q1), q2).driver = 0
          /\ dynamic_scraper' = NoScraper
    /\ pc' = "idle"
    /\ context' = NewContext(EmptyUrl)
    /\ stage' = 1
    /\ attempt' = 0
    /\ result' = Pending
    /\ calls' = [i \in StageIdx |-> 0]
    /\ sleeps' = [i \in StageIdx |-> <<>>]
    /\ fetch_log' = <<>>
    /\ created' = 0
    /\ static_doc' = NoDoc
    /\ failed_stage' = 0
    /\ UNCHANGED <<max_retries, retry_delay, runs, st, ds, an, fn>>

\* ScrapingPipeline.__init__: seven stages, no browser, nothing run yet
PipelineIdle ==
    /\ retry_delay = [i \in StageIdx |-> InitialRetryDelay(StageNames[i])]
    /\ dynamic_scraper = NoScraper
    /\ context = NewContext(EmptyUrl)
    /\ pc = "idle"
    /\ stage = 1
    /\ attempt = 0
    /\ result = Pending
    /\ calls = [i \in StageIdx |-> 0]
    /\ sleeps = [i \in StageIdx |-> <<>>]
    /\ fetch_log = <<>>
    /\ created = 0
    /\ static_doc = NoDoc
    /\ failed_stage = 0

Init ==
    /\ PipelineIdle
    /\ max_retries = DefaultMaxRetries
    /\ runs = 0
    /\ st = 0
    /\ ds = 0
    /\ an = 0
    /\ fn = 0

Next ==
    \/ Scrape
    \/ DomainAnalysis
    \/ StaticScraping
    \/ DynamicScraping
    \/ ContentExtraction
    \/ MetadataExtraction
    \/ ContentCleaning
    \/ ContentValidation
    \/ PipelineCleanup

Spec == Init /\ [][Next]_vars

\* one scrape() call under every MAX_RETRIES setting
InitCfg ==
    /\ PipelineIdle
    /\ max_retries \in 0..MaxRetriesCfg
    /\ runs = MaxRuns - 1
    /\ st = 0
    /\ ds = 0
    /\ an = 0
    /\ fn = 0

SpecCfg == InitCfg /\ [][Next]_vars

\* one iteration of the loop of some stage: a call of a processor returns or
\* raises, it does not hang (fetches run under a timeout)
StageStep ==
    \/ DomainAnalysis
    \/ StaticScraping
    \/ DynamicScraping
    \/ ContentExtraction
    \/ MetadataExtraction
    \/ ContentCleaning
    \/ ContentValidation

\* scrape() is one thread of control: once called it keeps executing
SpecCfgFair == SpecCfg /\ WF_vars(StageStep)

-----------------------------------------------------------------------------
(* One PipelineStage on its own: any retry budget, any initial delay *)

\* the three error_handler configurations of _define_pipeline: a handler that
\* reports handled, a handler that does not, and no handler
StageHandlers == {"static_scraping", "dynamic_scraping", "content_extraction"}

\* PipelineStage.__init__ followed by the entry of execute(): attempt = 0
NewStage(name, n, d) ==
    [ name |-> name, n |-> n, d0 |-> d, delay |-> d, attempt |-> 0, calls |-> 0,
      sleeps |-> <<>>, ret |-> "running", allfail |-> TRUE, execs |-> 1 ]

StageMachine == [ context |-> NewContext(ExampleUrl), dynamic_scraper |-> NoScraper,
                  fetch_log |-> <<>>, created |-> 0, static_doc |-> NoDoc ]

\* one iteration of the while loop: the processor returns or raises
StageAttempt ==
    /\ st.ret = "running"
    /\ \E fails \in BOOLEAN :
          LET pr == IF fails THEN Raised(StageMachine) ELSE Returned(StageMachine, "ok")
              ex == execute(st.name, st.attempt, st.n, st.delay, pr)
              unhandled == fails /\ ~ErrorHandler(st.name, StageMachine.context).handled
          IN st' = [st EXCEPT !.attempt = ex.attempt,
                              !.delay = ex.retry_delay,
                              !.calls = @ + 1,
                              !.sleeps = @ \o ex.slept,
                              !.ret = IF ex.ret = "retry" THEN "running" ELSE ex.ret,
                              !.allfail = @ /\ unhandled]
    /\ UNCHANGED <<pvars, ds, an, fn>>

\* execute() called again on the same stage object: attempt is a local and
\* starts at 0, self.retry_delay is whatever the last call left
StageExecute ==
    /\ st.ret \in {"True", "False"}
    /\ st.execs < MaxExecutes
    /\ st' = [st EXCEPT !.d0 = st.delay, !.attempt = 0, !.calls = 0, !.sleeps = <<>>,
                        !.ret = "running", !.allfail = TRUE, !.execs = @ + 1]
    /\ UNCHANGED <<pvars, ds, an, fn>>

InitStage ==
    /\ PipelineIdle
    /\ max_retries = DefaultMaxRetries
    /\ runs = 0
    /\ st \in {NewStage(name, n, d) : name \in StageHandlers, n \in 0..MaxStageRetries,
                                      d \in 0..MaxInitialDelay}
    /\ ds = 0
    /\ an = 0
    /\ fn = 0

NextStage == StageAttempt \/ StageExecute

SpecStage == InitStage /\ [][NextStage]_vars

-----------------------------------------------------------------------------
(* DynamicScraper objects on their own: construction, fetches, cleanup, __del__ *)

\* the try/except of cleanup(): an exception of driver.quit() is caught by the
\* inner except, whose body logs; nothing else in the body can raise
cleanup_raises(s, quit_ok) ==
    LET quit_raised == s.driver # 0 /\ ~quit_ok
        caught == quit_raised
    IN quit_raised /\ ~caught

\* an object whose __init__ raised before self.driver was assigned; cleanup's
\* hasattr test fails on it as the truth test fails on None
HalfBuilt == [present |-> TRUE, driver |-> 0, quits |-> 0, live |-> FALSE]

NoScrapers == [ objs |-> <<>>, cleanups |-> <<>>, finalized |-> <<>>, fetched |-> <<>>,
                raised |-> FALSE ]

\* DynamicScraper(): the browser starts, or __init__ raises and the object is
\* collected at once (__del__ calls cleanup)
ScraperConstruct ==
    /\ Len(ds.objs) < MaxScrapers
    /\ \E ok \in BOOLEAN :
          ds' = [ds EXCEPT !.objs = Append(@, IF ok THEN NewScraper
                                                ELSE dynamic_cleanup(HalfBuilt, TRUE)),
                           !.cleanups = Append(@, IF ok THEN 0 ELSE 1),
                           !.finalized = Append(@, ~ok),
                           !.fetched = Append(@, 0),
                           !.raised = @ \/ (~ok /\ cleanup_raises(HalfBuilt, TRUE))]
    /\ UNCHANGED <<pvars, st, an, fn>>

\* get_page_content(url): cleanup_after is False at every call site; the call
\* returns a document or None and never raises
ScraperGetPageContent ==
    /\ \E i \in 1..Len(ds.objs), url \in {EmptyUrl, ExampleUrl}, page \in {"page", "empty"} :
          /\ ~ds.finalized[i]
          /\ ds.fetched[i] < MaxFetches
          /\ get_page_content(ds.objs[i], url, page).handle = ds.objs[i].driver
                \/ url = EmptyUrl
          /\ ds' = [ds EXCEPT !.fetched[i] = @ + 1]
    /\ UNCHANGED <<pvars, st, an, fn>>

\* cleanup() from a normal path
ScraperCleanup ==
    /\ \E i \in 1..Len(ds.objs), quit_ok \in BOOLEAN :
          /\ ~ds.finalized[i]
          /\ ds.cleanups[i] < MaxCleanups
          /\ ds' = [ds EXCEPT !.objs[i] = dynamic_cleanup(@, quit_ok),
                              !.cleanups[i] = @ + 1,
                              !.raised = @ \/ cleanup_raises(ds.objs[i], quit_ok)]
    /\ UNCHANGED <<pvars, st, an, fn>>

\* __del__: cleanup() once more, whatever was called before
ScraperDel ==
    /\ \E i \in 1..Len(ds.objs), quit_ok \in BOOLEAN :
          /\ ~ds.finalized[i]
          /\ ds' = [ds EXCEPT !.objs[i] = dynamic_cleanup(@, quit_ok),
                              !.cleanups[i] = @ + 1,
                              !.finalized[i] = TRUE,
                              !.raised = @ \/ cleanup_raises(ds.objs[i], quit_ok)]
    /\ UNCHANGED <<pvars, st, an, fn>>

InitScraper ==
    /\ PipelineIdle
    /\ max_retries = DefaultMaxRetries
    /\ runs = 0
    /\ st = 0
    /\ ds = NoScrapers
    /\ an = 0
    /\ fn = 0

NextScraper == ScraperConstruct \/ ScraperGetPageContent \/ ScraperCleanup \/ ScraperDel

SpecScraper == InitScraper /\ [][NextScraper]_vars

-----------------------------------------------------------------------------
(* The GoogleSearchScraper singleton on its own: constructions, searches,
   cleanup() and the teardown at the end of an analysis *)

\* the class before the first construction: _instance None, _initialised
\* False; objects counts the objects __new__ has allocated, returned is the
\* set of objects the constructions have returned, insts the DynamicScrapers
\* created so far and searches one record per search
NoSingleton ==
    [ instance |-> 0, objects |-> 0, initialised |-> FALSE, dynamic_scraper |-> 0,
      functional |-> TRUE, insts |-> <<>>, returned |-> {}, constructions |-> 0,
      searches |-> <<>> ]

\* GoogleSearchScraper.__new__: an object is allocated only while _instance
\* is None
google_new(g) ==
    IF g.instance = 0
    THEN [g EXCEPT !.objects = @ + 1, !.instance = g.objects + 1]
    ELSE g

\* GoogleSearchScraper.__init__: skipped when _initialised; otherwise
\* _dynamic_scraper becomes None (a DynamicScraper it referred to is collected
\* and its __del__ calls cleanup) and _initialised True
google_init(g, quit_ok) ==
    IF g.initialised THEN g
    ELSE LET g1 == IF g.dynamic_scraper # 0
                   THEN [g EXCEPT !.insts[g.dynamic_scraper] = dynamic_cleanup(@, quit_ok)]
                   ELSE g
         IN [g1 EXCEPT !.dynamic_scraper = 0, !.functional = TRUE, !.initialised = TRUE]

\* GoogleSearchScraper.dynamic_scraper (property): a DynamicScraper is
\* constructed only when _dynamic_scraper is None; a failed construction
\* clears is_dynamic_functional and the property returns None
google_dynamic_scraper(g, create_ok) ==
    IF g.dynamic_scraper # 0 THEN g
    ELSE IF create_ok
    THEN [g EXCEPT !.insts = Append(@, NewScraper), !.dynamic_scraper = Len(g.insts) + 1]
    ELSE [g EXCEPT !.functional = FALSE]

\* mutant: cleanup() keeps the reference to the DynamicScraper it cleaned up
google_cleanup_keep_reference(g, quit_ok) ==
    LET g1 == IF g.dynamic_scraper # 0
              THEN [g EXCEPT !.insts[g.dynamic_scraper] = dynamic_cleanup(@, quit_ok)]
              ELSE g
    IN [g1 EXCEPT !.functional = TRUE, !.initialised = FALSE]

\* GoogleSearchScraper.cleanup: the DynamicScraper, if any, is cleaned up and
\* the reference set to None (DynamicScraper.cleanup never raises); then
\* is_dynamic_functional is True and _initialised False
google_cleanup(g, quit_ok) ==
    LET g1 == IF g.dynamic_scraper # 0
              THEN [g EXCEPT !.insts[g.dynamic_scraper] = dynamic_cleanup(@, quit_ok),
                             !.dynamic_scraper = 0]
              ELSE g
    IN [g1 EXCEPT !.functional = TRUE, !.initialised = FALSE]

\* the finally block of process_url_async, on the object GoogleSearchScraper()
\* returned: the DynamicScraper is detached, then cleaned up
detach_and_cleanup(g, quit_ok) ==
    IF g.dynamic_scraper # 0
    THEN [g EXCEPT !.insts[g.dynamic_scraper] = dynamic_cleanup(@, quit_ok),
                   !.dynamic_scraper = 0]
    ELSE g

\* GoogleSearchScraper(): __new__, then __init__ on the object it returned
construct(g, quit_ok) ==
    LET g1 == google_init(google_new(g), quit_ok)
    IN [g1 EXCEPT !.returned = @ \cup {g1.instance}, !.constructions = @ + 1]

\* the google_scraper properties of the controller and the pipeline,
\* NewsProcessor.optimise_search_query
GoogleConstruct ==
    /\ ds.constructions < MaxConstructions
    /\ \E quit_ok \in BOOLEAN : ds' = construct(ds, quit_ok)
    /\ UNCHANGED <<pvars, st, an, fn>>

\* _try_search on the instance: self.dynamic_scraper, then get_page_content
\* on what it returned (None raises AttributeError, caught: no results)
SingletonSearch ==
    /\ ds.instance # 0
    /\ Len(ds.searches) < MaxSearches
    /\ \E create_ok \in BOOLEAN :
          LET g == google_dynamic_scraper(ds, create_ok)
              i == g.dynamic_scraper
          IN ds' = [g EXCEPT !.searches =
                       Append(@, [held |-> ds.dynamic_scraper,
                                  created |-> Len(g.insts) > Len(ds.insts),
                                  create_ok |-> create_ok,
                                  used |-> i,
                                  driver |-> IF i # 0 THEN g.insts[i].driver ELSE 0,
                                  quits |-> IF i # 0 THEN g.insts[i].quits ELSE 0])]
    /\ UNCHANGED <<pvars, st, an, fn>>

\* cleanup() at shutdown, from the controller, the pipeline or main
GoogleCleanup ==
    /\ ds.instance # 0
    /\ \E quit_ok \in BOOLEAN : ds' = google_cleanup(ds, quit_ok)
    /\ UNCHANGED <<pvars, st, an, fn>>

\* the teardown at the end of every analysis
MainTeardown ==
    /\ ds.constructions < MaxConstructions
    /\ \E q1 \in BOOLEAN, q2 \in BOOLEAN : ds' = detach_and_cleanup(construct(ds, q1), q2)
    /\ UNCHANGED <<pvars, st, an, fn>>

InitSingleton ==
    /\ PipelineIdle
    /\ max_retries = DefaultMaxRetries
    /\ runs = 0
    /\ st = 0
    /\ ds = NoSingleton
    /\ an = 0
    /\ fn = 0

NextSingleton == GoogleConstruct \/ SingletonSearch \/ GoogleCleanup \/ MainTeardown

SpecSingleton == InitSingleton /\ [][NextSingleton]_vars

-----------------------------------------------------------------------------
(* Analyses as background tasks on one event loop, over the global
   ScrapingController / ScrapingPipeline and the GoogleSearchScraper singleton.
   A task runs alone (loop = its id) from one await of an LLM call to the next;
   scrape_content and search_for_articles are synchronous calls. *)

Tasks == 1..MaxTasks

InFlight(a, t) == a.pc[t] \notin {"none", "done"}

\* a browser started by a DynamicScraper: the scraper object, the tasks that
\* constructed or navigated it, and whether a task operated on it while
\* another task that had used it was still in flight
NewInstance(t) == [scraper |-> NewScraper, users |-> {t}, foreign |-> FALSE]

OtherUsers(a, i, t) == {u \in a.insts[i].users \ {t} : InFlight(a, u)}

\* get_page_content / driver.url / get_page_soup on instance i by task t
UseInstance(a, i, t) ==
    [a EXCEPT !.insts[i].users = @ \cup {t},
              !.insts[i].foreign = @ \/ OtherUsers(a, i, t) # {}]

\* cleanup() of instance i by task t
TearDownInstance(a, i, t, quit_ok) ==
    [a EXCEPT !.insts[i].scraper = dynamic_cleanup(@, quit_ok),
              !.insts[i].foreign = @ \/ OtherUsers(a, i, t) # {}]

\* scrape_content(url) -> pipeline.scrape(url): when the dynamic stage fetches
\* and the pipeline has no DynamicScraper yet, one is constructed, used and
\* cleaned up inside the call; a DynamicScraper kept from an earlier call has
\* no browser any more
PipelineScrape(a, t, dyn, create_ok, quit_ok) ==
    IF dyn /\ a.pipe = 0 /\ create_ok
    THEN LET i == Len(a.insts) + 1
             a1 == [a EXCEPT !.insts = Append(@, NewInstance(t)), !.pipe = i]
         IN TearDownInstance(a1, i, t, quit_ok)
    ELSE a

\* an entry of analysis_store: absent, or the keys complete, success, result
\* and error (result and error: whether something other than None is stored)
NoRecord == [exists |-> FALSE, complete |-> FALSE, success |-> FALSE,
             result |-> FALSE, error |-> FALSE]

\* the status analyse_start stores
Queued == [by |-> 0, message |-> "queued"]

\* status.update_status, called by task t as it reaches the step `message':
\* the status (and the log line) go to the record named by the global
\* current_analysis_id, and nowhere when that is None
update_status(a, t, message) ==
    IF a.current # 0 /\ a.store[a.current].exists
    THEN [a EXCEPT !.status[a.current] = [by |-> t, message |-> message]]
    ELSE a

\* mutant: an analysis without a result stores no error message
store_outcome_no_error(a, t, ret) ==
    IF ret = "none"
    THEN update_status([a EXCEPT !.store[t].complete = TRUE,
                                 !.store[t].success = FALSE], t, "done")
    ELSE IF ret = "result"
    THEN update_status([a EXCEPT !.store[t].result = TRUE, !.store[t].success = TRUE], t, "done")
    ELSE [update_status(a, t, "done") EXCEPT !.store[t].error = TRUE, !.store[t].success = FALSE]

\* process_url_async, from the return of analyse_article to the end of the
\* try statement: no result stores an error, a result is stored with success,
\* an exception stores its message
store_outcome(a, t, ret) ==
    IF ret = "none"
    THEN update_status([a EXCEPT !.store[t].error = TRUE, !.store[t].complete = TRUE,
                                 !.store[t].success = FALSE], t, "done")
    ELSE IF ret = "result"
    THEN update_status([a EXCEPT !.store[t].result = TRUE, !.store[t].success = TRUE], t, "done")
    ELSE [update_status(a, t, "done") EXCEPT !.store[t].error = TRUE, !.store[t].success = FALSE]

\* analyse_status: 404 for an unknown id; otherwise complete and, only when
\* complete, success with the error (no success) or the result (success)
Response(code, r) ==
    [ code |-> code,
      complete |-> r.complete,
      success |-> IF ~r.complete THEN "absent"
                  ELSE IF r.success THEN "true" ELSE "false",
      error |-> IF ~r.complete \/ r.success THEN "absent"
                ELSE IF r.error THEN "message" ELSE "None",
      result |-> IF ~r.complete \/ ~r.success THEN "absent"
                 ELSE IF r.result THEN "result" ELSE "None" ]

analyse_status(a, t) ==
    IF ~a.store[t].exists THEN Response("404", NoRecord) ELSE Response("200", a.store[t])

\* a client polls /analyse-status/{id}: the handler runs on the event loop,
\* between two synchronous stretches of the tasks; seen is its last response
AnalyseStatus(t) ==
    /\ an.loop = 0
    /\ an' = [an EXCEPT !.seen[t] = analyse_status(an, t)]
    /\ UNCHANGED <<pvars, st, ds, fn>>

\* analyse_start: the record is stored and the task handed to BackgroundTasks
AnalyseStart(t) ==
    /\ an.pc[t] = "none"
    /\ an.loop = 0
    /\ an' = [an EXCEPT !.pc[t] = "start", !.store[t].exists = TRUE, !.status[t] = Queued]
    /\ UNCHANGED <<pvars, st, ds, fn>>

\* process_url_async up to the first LLM call of analyse_article: the main
\* article is scraped; no content or no text ends the analysis
TaskScrapeMain(t) ==
    /\ an.pc[t] = "start"
    /\ an.loop = 0
    /\ \E dyn \in BOOLEAN, create_ok \in BOOLEAN, quit_ok \in BOOLEAN,
          out \in {"none", "empty", "text"} :
          LET a0 == [an EXCEPT !.current = t, !.store[t].complete = FALSE,
                               !.store[t].success = FALSE]
              a1 == PipelineScrape(a0, t, dyn, create_ok, quit_ok)
          IN an' = IF out = "text"
                   THEN update_status([a1 EXCEPT !.pc[t] = "llm_main"], t, "llm_main")
                   ELSE update_status([a1 EXCEPT !.pc[t] = "finally", !.loop = t,
                                                 !.ret[t] = "none"], t, "finally")
    /\ UNCHANGED <<pvars, st, ds, fn>>

\* process_article returns: no analysis ends the run, otherwise the search
TaskResumeMain(t) ==
    /\ an.pc[t] = "llm_main"
    /\ an.loop = 0
    /\ \E ok \in BOOLEAN :
          an' = [update_status(an, t, IF ok THEN "search" ELSE "finally")
                   EXCEPT !.pc[t] = IF ok THEN "search" ELSE "finally",
                          !.loop = t,
                          !.ret[t] = IF ok THEN @ ELSE "none"]
    /\ UNCHANGED <<pvars, st, ds, fn>>

\* _try_search: GoogleSearchScraper.dynamic_scraper constructs the browser
\* when _dynamic_scraper is None (a failure gives no results), then
\* get_page_content(search_url) navigates it
TaskSearchNavigate(t) ==
    /\ an.pc[t] = "search"
    /\ an.loop = t
    /\ \E create_ok \in BOOLEAN :
          LET a0 == update_status(an, t, IF an.google # 0 \/ create_ok
                                         THEN "searched" ELSE "finally")
          IN an' = IF an.google # 0
                   THEN [UseInstance(a0, an.google, t) EXCEPT !.pc[t] = "searched"]
                   ELSE IF create_ok
                   THEN [a0 EXCEPT !.insts = Append(@, NewInstance(t)),
                                   !.google = Len(an.insts) + 1,
                                   !.pc[t] = "searched"]
                   ELSE [a0 EXCEPT !.pc[t] = "finally", !.ret[t] = "result"]
    /\ UNCHANGED <<pvars, st, ds, fn>>

\* _try_search, continued: driver.url and the page are read, the results
\* extracted; the browser is left running.  No result ends the analysis.
TaskSearchResults(t) ==
    /\ an.pc[t] = "searched"
    /\ an.loop = t
    /\ \E n \in 0..MaxRefs :
          LET a0 == update_status(an, t, IF n = 0 THEN "finally" ELSE "refs")
          IN an' = IF n = 0
                   THEN [UseInstance(a0, an.google, t) EXCEPT !.pc[t] = "finally",
                                                              !.ret[t] = "result"]
                   ELSE [UseInstance(a0, an.google, t) EXCEPT !.pc[t] = "refs", !.refs[t] = n]
    /\ UNCHANGED <<pvars, st, ds, fn>>

\* process_reference_articles: the next reference is scraped; with text it
\* goes to the LLM, without it is skipped
TaskScrapeRef(t) ==
    /\ an.pc[t] = "refs"
    /\ an.loop = t
    /\ an.refs[t] > 0
    /\ \E dyn \in BOOLEAN, create_ok \in BOOLEAN, quit_ok \in BOOLEAN, text \in BOOLEAN :
          LET a1 == PipelineScrape(update_status(an, t, IF text THEN "llm_ref" ELSE "refs"),
                                   t, dyn, create_ok, quit_ok)
          IN an' = IF text
                   THEN [a1 EXCEPT !.refs[t] = @ - 1, !.pc[t] = "llm_ref", !.loop = 0]
                   ELSE [a1 EXCEPT !.refs[t] = @ - 1]
    /\ UNCHANGED <<pvars, st, ds, fn>>

\* process_article of a reference returns
TaskResumeRef(t) ==
    /\ an.pc[t] = "llm_ref"
    /\ an.loop = 0
    /\ \E ok \in BOOLEAN :
          an' = [update_status(an, t, "refs") EXCEPT !.pc[t] = "refs", !.loop = t,
                                                     !.got[t] = @ \/ ok]
    /\ UNCHANGED <<pvars, st, ds, fn>>

\* the loop over the references ends: cross_reference_articles (an LLM call)
\* when a reference was analysed
TaskRefsDone(t) ==
    /\ an.pc[t] = "refs"
    /\ an.loop = t
    /\ an.refs[t] = 0
    /\ an' = IF an.got[t]
             THEN [update_status(an, t, "llm_cross") EXCEPT !.pc[t] = "llm_cross", !.loop = 0]
             ELSE [update_status(an, t, "finally") EXCEPT !.pc[t] = "finally",
                                                          !.ret[t] = "result"]
    /\ UNCHANGED <<pvars, st, ds, fn>>

TaskResumeCross(t) ==
    /\ an.pc[t] = "llm_cross"
    /\ an.loop = 0
    /\ an' = [update_status(an, t, "finally") EXCEPT !.pc[t] = "finally", !.loop = t,
                                                      !.ret[t] = "result"]
    /\ UNCHANGED <<pvars, st, ds, fn>>

\* the end of process_url_async: the outcome is stored; then the finally
\* block marks the analysis complete, resets current_analysis_id, and
\* detaches and cleans up whatever browser the singleton holds
TaskFinally(t) ==
    /\ an.pc[t] = "finally"
    /\ an.loop = t
    /\ \E quit_ok \in BOOLEAN :
          LET a0 == [store_outcome(an, t, an.ret[t]) EXCEPT !.store[t].complete = TRUE,
                                                            !.current = 0]
              a1 == IF an.google # 0
                    THEN [TearDownInstance(a0, an.google, t, quit_ok) EXCEPT !.google = 0]
                    ELSE a0
          IN an' = [a1 EXCEPT !.pc[t] = "done", !.loop = 0]
    /\ UNCHANGED <<pvars, st, ds, fn>>

NoTasks ==
    [ pc |-> [t \in Tasks |-> "none"], loop |-> 0, refs |-> [t \in Tasks |-> 0],
      got |-> [t \in Tasks |-> FALSE], google |-> 0, pipe |-> 0, insts |-> <<>>,
      current |-> 0, status |-> [t \in Tasks |-> Queued],
      ret |-> [t \in Tasks |-> ""], store |-> [t \in Tasks |-> NoRecord],
      seen |-> [t \in Tasks |-> Response("none", NoRecord)] ]

InitTasks ==
    /\ PipelineIdle
    /\ max_retries = DefaultMaxRetries
    /\ runs = 0
    /\ st = 0
    /\ ds = 0
    /\ an = NoTasks
    /\ fn = 0

NextTasks ==
    \E t \in Tasks :
        \/ AnalyseStart(t)
        \/ TaskScrapeMain(t)
        \/ TaskResumeMain(t)
        \/ TaskSearchNavigate(t)
        \/ TaskSearchResults(t)
        \/ TaskScrapeRef(t)
        \/ TaskResumeRef(t)
        \/ TaskRefsDone(t)
        \/ TaskResumeCross(t)
        \/ TaskFinally(t)

SpecTasks == InitTasks /\ [][NextTasks]_vars

\* one step of the background task of analysis t: a synchronous stretch of
\* process_url_async between two awaits
TaskStep(t) ==
    \/ TaskScrapeMain(t)
    \/ TaskResumeMain(t)
    \/ TaskSearchNavigate(t)
    \/ TaskSearchResults(t)
    \/ TaskScrapeRef(t)
    \/ TaskResumeRef(t)
    \/ TaskRefsDone(t)
    \/ TaskResumeCross(t)
    \/ TaskFinally(t)

Analyses == 1..MaxAnalyses

NextAnalyses == \E t \in Analyses : AnalyseStart(t) \/ TaskStep(t) \/ AnalyseStatus(t)

\* the event loop runs a task that is ready, every awaited LLM call returns,
\* and the synchronous calls (scrape, search) return: while some task can
\* take a step, some task does
SpecAnalyses == InitTasks /\ [][NextAnalyses]_vars /\ WF_vars(\E t \in Analyses : TaskStep(t))

-----------------------------------------------------------------------------
(* MetadataExtractor.extract_metadata on its own: any input record *)

\* input records: any combination of pre-populated fields, or None
ContentInputs ==
    [kind : {"dict"}, headline : {"", "X"}, author : {"", "Y"}, publishDate : {"", "Z"},
     text : {"", "body"}] \cup {NoContent}

MetadataDocs == { [src |-> "static", meaningful |-> TRUE, js |-> FALSE, body |-> b, handle |-> 0] :
                  b \in {"page", "empty"} }

\* the two tiers find values that differ from each other and from the input
MetadataEnvAll == [raises : {FALSE}, html : Found({"", "H"}, {"", "A"}, {"", "D"}),
                   ner_ok : BOOLEAN, ner : Found({"", "N"}, {"", "M"}, {"", "E"})]

ApplyExtractMetadata ==
    /\ ~fn.applied
    /\ \E env \in MetadataEnvAll :
          fn' = [fn EXCEPT !.applied = TRUE, !.env = env,
                           !.out = extract_metadata(fn.soup, fn.content, env),
                           !.steps = extract_metadata_steps(fn.soup, fn.content, env)]
    /\ UNCHANGED <<pvars, st, ds, an>>

InitMeta ==
    /\ PipelineIdle
    /\ max_retries = DefaultMaxRetries
    /\ runs = 0
    /\ st = 0
    /\ ds = 0
    /\ an = 0
    /\ fn \in [name : {"extract_metadata"}, content : ContentInputs, soup : MetadataDocs,
               env : {0}, applied : {FALSE}, out : {NoContent}, steps : {<<>>}]

NextMeta == ApplyExtractMetadata

SpecMeta == InitMeta /\ [][NextMeta]_vars

-----------------------------------------------------------------------------
(* normalise_url applied to an arbitrary URL, and to its own result *)

UrlBase == <<"h","t","t","p",":","/","/","a",".","c","o","/","x">>

\* query parameters: plain ones, with and without "=", and tracking names in
\* several spellings
UrlParams ==
    { <<"a","=","1">>,
      <<"b">>,
      <<"u","t","m","_","s","o","u","r","c","e","=","1">>,
      <<"U","T","M","_","M","e","d","i","u","m","=","1">>,
      <<"u","t","m","_","i","d","=","1">>,
      <<"f","b","c","l","i","d","=","1">>,
      <<"f","b","c","l","i","d">>,
      <<"r","e","f","=","1">> }

RECURSIVE Slashes(_)
Slashes(n) == IF n = 0 THEN <<>> ELSE <<"/">> \o Slashes(n - 1)

\* every sequence of at most n members of S
RECURSIVE SeqsUpTo(_, _)
SeqsUpTo(S, n) ==
    IF n = 0 THEN {<<>>}
    ELSE LET shorter == SeqsUpTo(S, n - 1)
         IN shorter \cup {Append(q, x) : q \in shorter, x \in S}

UrlQueries ==
    {<<>>} \cup { <<"?">> \o join(q, "&") : q \in SeqsUpTo(UrlParams, MaxParams) }

UrlFragments == { <<>>, <<"#","f">> }

UrlInputs ==
    {<<>>} \cup
    { UrlBase \o Slashes(k) \o q \o Slashes(n) \o f :
        k \in 0..1, q \in UrlQueries, n \in 0..MaxSlashes, f \in UrlFragments }

\* url = normalise_url(url)
ApplyNormaliseUrl ==
    /\ fn.applied = 0
    /\ fn' = [fn EXCEPT !.applied = 1, !.out = normalise_url(fn.url)]
    /\ UNCHANGED <<pvars, st, ds, an>>

\* normalise_url given a URL that normalise_url returned
ApplyNormaliseUrlAgain ==
    /\ fn.applied = 1
    /\ fn' = [fn EXCEPT !.applied = 2, !.again = normalise_url(fn.out)]
    /\ UNCHANGED <<pvars, st, ds, an>>

InitUrl ==
    /\ PipelineIdle
    /\ max_retries = DefaultMaxRetries
    /\ runs = 0
    /\ st = 0 /\ ds = 0 /\ an = 0
    /\ fn \in [name : {"normalise_url"}, url : UrlInputs, applied : {0},
               out : {<<>>}, again : {<<>>}]

NextUrl == ApplyNormaliseUrl \/ ApplyNormaliseUrlAgain

SpecUrl == InitUrl /\ [][NextUrl]_vars

-----------------------------------------------------------------------------
(* GoogleSearchScraper: the harvest of one results page *)

\* urllib.parse.urlparse(url).query
urlparse_query(url) ==
    LET u == split(url, "#")[1]
    IN IF IndexOf(u, "?") = 0 THEN <<>> ELSE split1(u, "?")[2]

\* urllib.parse.parse_qs(query)[name]: the values given to name, in order;
\* blank values are dropped (no value here needs percent-decoding)
parse_qs(query, name) ==
    LET named(param) == /\ IndexOf(param, "=") # 0
                        /\ split1(param, "=")[1] = name
                        /\ split1(param, "=")[2] # <<>>
        found == SelectSeq(split(query, "&"), named)
    IN [i \in 1..Len(found) |-> split1(found[i], "=")[2]]

\* the test that an href is a Google redirect
is_redirect(url) ==
    startswith(url, <<"/","u","r","l","?">>) \/ IsSubstring(<<"g","o","o","g","l","e",".","c","o","m","/","u","r","l">>, url)

\* text_utils.extract_url_from_redirect
extract_url_from_redirect(redirect_url) ==
    IF redirect_url = <<>> THEN <<>>
    ELSE IF is_redirect(redirect_url)
    THEN LET query == urlparse_query(redirect_url)
         IN IF parse_qs(query, <<"u","r","l">>) # <<>> THEN parse_qs(query, <<"u","r","l">>)[1]
            ELSE IF parse_qs(query, <<"q">>) # <<>> THEN parse_qs(query, <<"q">>)[1]
            ELSE redirect_url
    ELSE redirect_url

\* None in place of the original URL's information
NoUrlInfo == [given |-> FALSE, domain |-> <<>>, normalised_url |-> <<>>]

\* GoogleSearchScraper._get_original_url_info
get_original_url_info(original_url) ==
    IF original_url = <<>> THEN NoUrlInfo
    ELSE [given |-> TRUE,
          domain |-> extract_domain_str(original_url),
          normalised_url |-> normalise_url(original_url)]

\* _should_skip_url: blacklisted_domains
blacklisted_domains ==
    { <<"y","o","u","t","u","b","e",".","c","o","m">>,
      <<"f","a","c","e","b","o","o","k",".","c","o","m">>,
      <<"t","w","i","t","t","e","r",".","c","o","m">>,
      <<"i","n","s","t","a","g","r","a","m",".","c","o","m">>,
      <<"p","o","l","i","c","i","e","s",".","g","o","o","g","l","e",".","c","o","m">> }

\* _should_skip_url: any(domain in url.lower() for domain in blacklisted_domains)
is_blacklisted(url) ==
    \E domain \in blacklisted_domains : IsSubstring(domain, lower(url))

\* GoogleSearchScraper._should_skip_url
should_skip_url(url, original_url_info, processed_urls) ==
    \/ url \in processed_urls
    \/ original_url_info.given /\ normalise_url(url) = original_url_info.normalised_url
    \/ is_blacklisted(url)

same_domain_never(url, original_domain) == FALSE

\* _extract_results: the comparison with the original article's domain
same_domain(url, original_domain) ==
    original_domain # <<>> /\ extract_domain_str(url) = original_domain

\* _extract_results: handling the item raises; the except clause around each
\* item logs it and goes on to the next item
item_raises(item) == "raises" \in DOMAIN item /\ item.raises

\* _extract_results: the loop over the news items, from item i on; examined is
\* the number of items the loop has looked at when it returns
RECURSIVE extract_loop(_, _, _, _, _, _)
extract_loop(news_items, i, results, processed_urls, original_url_info, num_results) ==
    IF i > Len(news_items) THEN [results |-> results, examined |-> Len(news_items)]
    ELSE LET item == news_items[i]
             url == IF is_redirect(item.href)
                    THEN extract_url_from_redirect(item.href)
                    ELSE item.href
             skip == \/ item_raises(item)
                     \/ ~item.link
                     \/ ~startswith(url, <<"h","t","t","p">>)
                     \/ should_skip_url(url, original_url_info, processed_urls)
                     \/ same_domain(url, original_url_info.domain)
             added == Append(results, [url |-> url, title |-> item.title])
         IN IF skip
            THEN extract_loop(news_items, i + 1, results, processed_urls,
                              original_url_info, num_results)
            ELSE IF Len(added) >= num_results
            THEN [results |-> added, examined |-> i]
            ELSE extract_loop(news_items, i + 1, added, processed_urls \cup {url},
                              original_url_info, num_results)

\* GoogleSearchScraper._extract_results
extract_results(news_items, original_url, num_results) ==
    extract_loop(news_items, 1, <<>>, {}, get_original_url_info(original_url), num_results)

\* GoogleSearchScraper.search_news, through _try_search: the harvest of the
\* page when the browser returned one, the empty list otherwise
search_news(fetched, news_items, original_url, num_results) ==
    IF fetched THEN extract_results(news_items, original_url, num_results)
    ELSE [results |-> <<>>, examined |-> 0]

\* the original article
OriginalUrl == <<"h","t","t","p","s",":","/","/","w","w","w",".","a",".","c","o","/","x">>

\* news items: an href with a ping attribute and a title, or no such link
Item(href) == [link |-> TRUE, href |-> href, title |-> "T"]
NewsItems ==
    { Item(<<"h","t","t","p","s",":","/","/","w","w","w",".","a",".","c","o","/","x","?","u","t","m","_","s","o","u","r","c","e","=","1">>),
      Item(<<"h","t","t","p","s",":","/","/","W","W","W",".","A",".","c","o","/","z">>),
      Item(<<"h","t","t","p","s",":","/","/","b",".","c","o","/","y">>),
      Item(<<"h","t","t","p","s",":","/","/","b",".","c","o","/","y","?","u","t","m","_","s","o","u","r","c","e","=","1">>),
      Item(<<"h","t","t","p","s",":","/","/","c",".","c","o","/","w","/">>),
      Item(<<"h","t","t","p","s",":","/","/","y","o","u","t","u","b","e",".","c","o","m","/","v">>),
      Item(<<"/","u","r","l","?","q","=","h","t","t","p","s",":","/","/","b",".","c","o","/","y","&","s","a","=","U">>),
      Item(<<"h","t","t","p","s",":","/","/","d",".","c","o","/","y","o","u","t","u","b","e",".","c","o","m">>),
      [link |-> FALSE, href |-> <<>>, title |-> ""] }

Pages == SeqsUpTo(NewsItems, MaxItems)

ApplySearchNews ==
    /\ ~fn.applied
    /\ \E fetched \in BOOLEAN :
          LET r == search_news(fetched, fn.news_items, fn.original_url, fn.num_results)
          IN fn' = [fn EXCEPT !.applied = TRUE, !.fetched = fetched,
                              !.results = r.results, !.examined = r.examined]
    /\ UNCHANGED <<pvars, st, ds, an>>

InitSearch ==
    /\ PipelineIdle
    /\ max_retries = DefaultMaxRetries
    /\ runs = 0
    /\ st = 0 /\ ds = 0 /\ an = 0
    /\ fn \in [name : {"search_news"}, news_items : Pages,
               original_url : {<<>>, OriginalUrl}, num_results : 0..MaxNumResults,
               applied : {FALSE}, fetched : {FALSE}, results : {<<>>}, examined : {0}]

NextSearch == ApplySearchNews

SpecSearch == InitSearch /\ [][NextSearch]_vars

-----------------------------------------------------------------------------
(* A search with the browser spelled out: failures and the consent page *)

\* what a call gives back: a list, or an exception; calls holds the calls
\* made on the DynamicScraper so far
ListResult(results, made) == [kind |-> "list", results |-> results, calls |-> made]
RaisedIn(made) == [kind |-> "raised", results |-> <<>>, calls |-> made]

\* mutant: no except clause
except_reraise(r) == r

\* try: ... except Exception as e: log; return []
except_return_empty(r) ==
    IF r.kind = "raised" THEN ListResult(<<>>, r.calls) ELSE r

\* _extract_results on a document: soup.find_all raising is caught by the
\* outer except clause, which returns the results so far (none)
extract_results_of(news_items, find_all_raises, original_url, num_results) ==
    IF find_all_raises THEN <<>>
    ELSE extract_results(news_items, original_url, num_results).results

\* mutant: after the consent page is dismissed the document fetched first is
\* still the one the results are taken from
try_search_body_no_reread(env, original_url, num_results) ==
    IF env.build_raises THEN RaisedIn(<<>>)
    ELSE IF env.browser = "none" THEN RaisedIn(<<>>)
    ELSE IF env.browser = "dead" THEN RaisedIn(<<"get_page_content">>)
    ELSE LET cookie_handled == env.on_consent /\ env.dismissed
             made == <<"get_page_content">>
                      \o (IF env.on_consent THEN <<"check_for_cookie_consent">> ELSE <<>>)
         IN ListResult(extract_results_of(env.first, env.find_all_raises, original_url, num_results),
                       made)

\* the body of _try_search: _build_search_url; get_page_content (which
\* returns a document for every non-empty URL and never raises); driver.url;
\* on a consent page check_for_cookie_consent (which returns a boolean and
\* never raises) and, when it succeeded, get_page_soup (which never raises);
\* then _extract_results.  browser "none": the DynamicScraper could not be
\* created and the property gave None; "dead": the scraper has no driver.
try_search_body(env, original_url, num_results) ==
    IF env.build_raises THEN RaisedIn(<<>>)
    ELSE IF env.browser = "none" THEN RaisedIn(<<>>)
    ELSE IF env.browser = "dead" THEN RaisedIn(<<"get_page_content">>)
    ELSE LET cookie_handled == env.on_consent /\ env.dismissed
             soup == IF cookie_handled THEN env.reread ELSE env.first
             made == <<"get_page_content">>
                      \o (IF env.on_consent THEN <<"check_for_cookie_consent">> ELSE <<>>)
                      \o (IF cookie_handled THEN <<"get_page_soup">> ELSE <<>>)
         IN ListResult(extract_results_of(soup, env.find_all_raises, original_url, num_results),
                       made)

\* GoogleSearchScraper._try_search: both except clauses end in return []
try_search(env, original_url, num_results) ==
    except_return_empty(try_search_body(env, original_url, num_results))

\* GoogleSearchScraper.search_news, with the browser spelled out
search_news_browser(env, original_url, num_results) ==
    except_return_empty(try_search(env, original_url, num_results))

\* ScrapingController.search_for_articles, through
\* ScrapingPipeline.search_for_articles (whose google_scraper always exists)
search_for_articles(env, original_url, num_results) ==
    except_return_empty(search_news_browser(env, original_url, num_results))

\* news items of these searches: two acceptable ones and one whose handling
\* raises
BrowserItems ==
    { Item(<<"h","t","t","p","s",":","/","/","b",".","c","o","/","y">>),
      Item(<<"h","t","t","p","s",":","/","/","c",".","c","o","/","w","/">>),
      [link |-> TRUE, href |-> <<>>, title |-> "T", raises |-> TRUE] }

BrowserPages == SeqsUpTo(BrowserItems, MaxBrowserItems)

BrowserEnv ==
    [build_raises : BOOLEAN, browser : {"ok", "none", "dead"}, on_consent : BOOLEAN,
     dismissed : BOOLEAN, first : BrowserPages, reread : BrowserPages,
     find_all_raises : BOOLEAN]

ApplySearchForArticles ==
    /\ ~fn.applied
    /\ fn' = [fn EXCEPT !.applied = TRUE,
                        !.news = search_news_browser(fn.env, fn.original_url, fn.num_results),
                        !.out = search_for_articles(fn.env, fn.original_url, fn.num_results)]
    /\ UNCHANGED <<pvars, st, ds, an>>

InitBrowser ==
    /\ PipelineIdle
    /\ max_retries = DefaultMaxRetries
    /\ runs = 0
    /\ st = 0 /\ ds = 0 /\ an = 0
    /\ fn \in [name : {"search_for_articles"}, env : BrowserEnv,
               original_url : {OriginalUrl}, num_results : {MaxNumResults},
               applied : {FALSE}, news : {RaisedIn(<<>>)}, out : {RaisedIn(<<>>)}]

NextBrowser == ApplySearchForArticles

SpecBrowser == InitBrowser /\ [][NextBrowser]_vars

-----------------------------------------------------------------------------
(* date_utils: the date window of a search *)

\* datetime(y, m, d) as a day number (days since 1970-01-01) in the proleptic
\* Gregorian calendar
days_from_civil(y, m, d) ==
    LET yy == IF m <= 2 THEN y - 1 ELSE y
        era == yy \div 400
        yoe == yy - era * 400
        mp == IF m > 2 THEN m - 3 ELSE m + 9
        doy == (153 * mp + 2) \div 5 + d - 1
        doe == yoe * 365 + yoe \div 4 - yoe \div 100 + doy
    IN era * 146097 + doe - 719468

\* the year, month and day of a day number
civil_from_days(z) ==
    LET zz == z + 719468
        era == zz \div 146097
        doe == zz - era * 146097
        yoe == (doe - doe \div 1460 + doe \div 36524 - doe \div 146096) \div 365
        doy == doe - (365 * yoe + yoe \div 4 - yoe \div 100)
        mp == (5 * doy + 2) \div 153
        d == doy - (153 * mp + 2) \div 5 + 1
        m == IF mp < 10 THEN mp + 3 ELSE mp - 9
        y == yoe + era * 400
    IN [year |-> IF m <= 2 THEN y + 1 ELSE y, month |-> m, day |-> d]

\* a datetime: its day number and the seconds since midnight
DateTime(ord, sec) == [ord |-> ord, sec |-> sec]
NoDate == [ord |-> -1, sec |-> -1]

\* datetime + timedelta(days = n)
plus_days(dt, n) == [dt EXCEPT !.ord = @ + n]

\* (a - b).days: a timedelta keeps 0 <= seconds < 86400, so days is the floor
timedelta_days(a, b) == ((a.ord - b.ord) * 86400 + (a.sec - b.sec)) \div 86400

\* date_utils.parse_article_date, for the strings of InitDate: "%Y-%m-%d",
\* "%Y-%m-%dT%H:%M:%SZ", the empty string and a string that holds no date
parse_article_date(publish_date) ==
    CASE publish_date.fmt = "%Y-%m-%d" ->
             DateTime(days_from_civil(publish_date.year, publish_date.month,
                                      publish_date.day), 0)
      [] publish_date.fmt = "%Y-%m-%dT%H:%M:%SZ" ->
             DateTime(days_from_civil(publish_date.year, publish_date.month,
                                      publish_date.day), publish_date.sec)
      [] OTHER -> NoDate

\* f"{d.month}/{d.day}/{d.year}"
format_mdy(dt) ==
    LET c == civil_from_days(dt.ord) IN <<c.month, c.day, c.year>>

\* params['tbs'] = 'cdr:1,cd_min:...,cd_max:...'
Cdr(start_date, end_date) ==
    [tbs |-> "cdr:1", cd_min |-> format_mdy(start_date), cd_max |-> format_mdy(end_date)]

\* params['tbs'] = 'qdr:...'
Qdr(range) == [tbs |-> range, cd_min |-> <<>>, cd_max |-> <<>>]

calculate_search_date_params_week(publish_date, days_old, now) ==
    LET article_date == parse_article_date(publish_date)
    IN IF article_date # NoDate
       THEN IF timedelta_days(now, article_date) <= 7
            THEN Cdr(plus_days(now, -14), plus_days(now, 1))
            ELSE Cdr(plus_days(article_date, -7), plus_days(article_date, 30))
       ELSE Qdr("qdr:m1")

\* date_utils.calculate_search_date_params; now is datetime.now()
calculate_search_date_params(publish_date, days_old, now) ==
    LET article_date == parse_article_date(publish_date)
        days_since_publication == timedelta_days(now, article_date)
    IN IF article_date # NoDate
       THEN IF days_since_publication <= 7
            THEN Cdr(plus_days(now, -14), plus_days(now, 1))
            ELSE Cdr(plus_days(article_date, -14), plus_days(article_date, 30))
       ELSE IF days_old <= 1 THEN Qdr("qdr:w")
       ELSE IF days_old <= 7 THEN Qdr("qdr:m1")
       ELSE IF days_old <= 31 THEN Qdr("qdr:m3")
       ELSE Qdr("qdr:y")

\* the first publication date of the model, 2023-12-25
FirstDate == days_from_civil(2023, 12, 25)

\* publish_date strings: a date, a timestamp at noon, the empty string, junk
PublishDates ==
    { [fmt |-> f, year |-> civil_from_days(FirstDate + k).year,
       month |-> civil_from_days(FirstDate + k).month,
       day |-> civil_from_days(FirstDate + k).day,
       sec |-> IF f = "%Y-%m-%d" THEN 0 ELSE 43200] :
         f \in {"%Y-%m-%d", "%Y-%m-%dT%H:%M:%SZ"}, k \in 0..MaxSpan }
    \cup { [fmt |-> f, year |-> 0, month |-> 0, day |-> 0, sec |-> 0] : f \in {"", "junk"} }

\* the day number a publish_date string names, whatever its format
PublishOrd(publish_date) ==
    IF publish_date.fmt \in {"", "junk"} THEN FirstDate
    ELSE days_from_civil(publish_date.year, publish_date.month, publish_date.day)

ApplyCalculateSearchDateParams ==
    /\ ~fn.applied
    /\ fn' = [fn EXCEPT !.applied = TRUE,
                        !.out = calculate_search_date_params(fn.publish_date, fn.days_old, fn.now)]
    /\ UNCHANGED <<pvars, st, ds, an>>

InitDate ==
    /\ PipelineIdle
    /\ max_retries = DefaultMaxRetries
    /\ runs = 0
    /\ st = 0 /\ ds = 0 /\ an = 0
    /\ \E pd \in PublishDates, age \in -1..MaxAge, sec \in {21600, 64800},
          days_old \in {1, 7, 31, 32} :
          fn = [name |-> "calculate_search_date_params", publish_date |-> pd,
                days_old |-> days_old, now |-> DateTime(PublishOrd(pd) + age, sec),
                applied |-> FALSE, out |-> Qdr("")]

NextDate == ApplyCalculateSearchDateParams

SpecDate == InitDate /\ [][NextDate]_vars

-----------------------------------------------------------------------------
(* MetadataExtractor: the HTML strategies of one field, tier by tier *)

\* what a tier finds in a document: no element (or no content attribute),
\* an element whose stripped text is empty, or an element with a value
TierOutcomes == {"absent", "blank", "value"}

\* the strategies of each field, in the order of the code
HeadlineTiers == <<"schema.org", "meta tags", "selectors", "h1", "header", "title">>
AuthorTiers == <<"schema.org", "meta tags", "selectors", "text patterns", "attribution">>
DateTiers == <<"schema.org", "meta tags", "time", "selectors", "text patterns">>

\* which strategies test the value they found before storing it: for the
\* headline only the schema.org one (if headline:), the others store
\* text.strip() of whatever element they found; for author and date all do
HeadlineGuarded == <<TRUE, FALSE, FALSE, FALSE, FALSE, FALSE>>
AuthorGuarded == <<TRUE, TRUE, TRUE, TRUE, TRUE>>
DateGuarded == <<TRUE, TRUE, TRUE, TRUE, TRUE>>

\* the strategies from tier k on: the value stored in the field, "" when the
\* function returns without a value
RECURSIVE extract_chain(_, _, _, _)
extract_chain(names, guarded, found, k) ==
    IF k > Len(names) THEN ""
    ELSE IF found[k] = "value" THEN names[k]
    ELSE IF found[k] = "blank" /\ ~guarded[k] THEN ""
    ELSE extract_chain(names, guarded, found, k + 1)

\* _extract_headline
extract_headline(content, found) ==
    IF content.headline # "" THEN content
    ELSE [content EXCEPT !.headline = extract_chain(HeadlineTiers, HeadlineGuarded, found, 1)]

\* _extract_author
extract_author(content, found) ==
    IF content.author # "" THEN content
    ELSE [content EXCEPT !.author = extract_chain(AuthorTiers, AuthorGuarded, found, 1)]

\* _extract_publication_date
extract_publication_date(content, found) ==
    IF content.publishDate # "" THEN content
    ELSE [content EXCEPT !.publishDate = extract_chain(DateTiers, DateGuarded, found, 1)]

TiersOf(field) ==
    CASE field = "headline" -> HeadlineTiers
      [] field = "author" -> AuthorTiers
      [] OTHER -> DateTiers

ApplyExtractField ==
    /\ ~fn.applied
    /\ fn' = [fn EXCEPT !.applied = TRUE,
                        !.out = CASE fn.field = "headline" -> extract_headline(fn.content, fn.found)
                                  [] fn.field = "author" -> extract_author(fn.content, fn.found)
                                  [] OTHER -> extract_publication_date(fn.content, fn.found)]
    /\ UNCHANGED <<pvars, st, ds, an>>

InitTiers ==
    /\ PipelineIdle
    /\ max_retries = DefaultMaxRetries
    /\ runs = 0
    /\ st = 0 /\ ds = 0 /\ an = 0
    /\ \E field \in MetadataFields :
          \E found \in [1..Len(TiersOf(field)) -> TierOutcomes] :
             fn = [name |-> "extract_field", field |-> field, found |-> found,
                   content |-> [NoContent EXCEPT !.kind = "dict"], applied |-> FALSE,
                   out |-> NoContent]

NextTiers == ApplyExtractField

SpecTiers == InitTiers /\ [][NextTiers]_vars

-----------------------------------------------------------------------------
(* ContentExtractor: the body text of a document *)

\* _extract_by_semantic_elements: semantic_tags, in the order they are tried
semantic_tags == <<"article", "main", "[role=main]", "[itemprop=articleBody]">>

\* A document is the semantic elements it holds (the selector each matches,
\* whether class or id match a noise pattern, the length of its stripped
\* text) and the lengths of the stripped texts of its <p> elements, both in
\* document order.  A text is named by the element it came from; a string is
\* a sequence of texts joined by blank lines, <<>> being "".
ElementText(i, e) == [of |-> "element", at |-> i, len |-> e.len]
ParagraphText(i, n) == [of |-> "p", at |-> i, len |-> n]

\* len(content): the texts and the "\n\n" between them
RECURSIVE StrLen(_)
StrLen(content) ==
    IF content = <<>> THEN 0
    ELSE IF Len(content) = 1 THEN content[1].len
    ELSE content[1].len + 2 + StrLen(Tail(content))

\* ContentExtractor._is_valid_content
is_valid_content(content) ==
    content # <<>> /\ StrLen(content) >= MinContentLength

\* soup.select(tag) followed by _filter_noise_elements: the positions of the
\* elements kept, in document order
filter_noise_elements(elements, tag) ==
    SelectSeq([i \in 1..Len(elements) |-> i],
              LAMBDA i : elements[i].tag = tag /\ ~elements[i].noise)

\* clean_elements.sort(key=len of text, reverse=True)[0]: the longest, the
\* first in document order among equals (the sort is stable)
longest_element(elements, clean) ==
    CHOOSE i \in 1..Len(clean) :
        \A j \in 1..Len(clean) :
            \/ elements[clean[j]].len < elements[clean[i]].len
            \/ elements[clean[j]].len = elements[clean[i]].len /\ i <= j

\* ContentExtractor._extract_by_semantic_elements, from selector k on
RECURSIVE extract_by_semantic_elements(_, _)
extract_by_semantic_elements(elements, k) ==
    IF k > Len(semantic_tags) THEN <<>>
    ELSE LET clean == filter_noise_elements(elements, semantic_tags[k])
         IN IF clean = <<>> THEN extract_by_semantic_elements(elements, k + 1)
            ELSE LET at == clean[longest_element(elements, clean)]
                 IN IF elements[at].len > 0 THEN <<ElementText(at, elements[at])>>
                    ELSE extract_by_semantic_elements(elements, k + 1)

\* ContentExtractor._extract_by_paragraphs
extract_by_paragraphs(paragraphs) ==
    LET kept == SelectSeq([i \in 1..Len(paragraphs) |-> i],
                          LAMBDA i : paragraphs[i] > MinParagraphLength)
    IN [j \in 1..Len(kept) |-> ParagraphText(kept[j], paragraphs[kept[j]])]

\* ContentExtractor._extract_with_fallbacks
extract_with_fallbacks(doc) ==
    LET content == extract_by_semantic_elements(doc.elements, 1)
    IN IF is_valid_content(content) THEN content
       ELSE extract_by_paragraphs(doc.paragraphs)

\* text lengths around the two thresholds
ElementLengths == {0, MinContentLength - 1, MinContentLength}
ParagraphLengths == {MinParagraphLength, MinParagraphLength + 1}

SemanticElements ==
    [tag : {semantic_tags[k] : k \in 1..Len(semantic_tags)}, noise : BOOLEAN,
     len : ElementLengths]

ApplyExtractWithFallbacks ==
    /\ ~fn.applied
    /\ fn' = [fn EXCEPT !.applied = TRUE, !.out = extract_with_fallbacks(fn.doc)]
    /\ UNCHANGED <<pvars, st, ds, an>>

InitExtract ==
    /\ PipelineIdle
    /\ max_retries = DefaultMaxRetries
    /\ runs = 0
    /\ st = 0 /\ ds = 0 /\ an = 0
    /\ fn \in [name : {"_extract_with_fallbacks"},
               doc : [elements : SeqsUpTo(SemanticElements, MaxCandidates),
                      paragraphs : SeqsUpTo(ParagraphLengths, MaxParagraphs)],
               applied : {FALSE}, out : {<<>>}]

NextExtract == ApplyExtractWithFallbacks

SpecExtract == InitExtract /\ [][NextExtract]_vars

-----------------------------------------------------------------------------
(* Properties of one scrape() run *)

StageOf(name) == CHOOSE i \in StageIdx : StageNames[i] = name
LaterStagesNotRun(i) == \A j \in StageIdx : j > i => calls[j] = 0
NoSleepAt(i) == sleeps[i] = <<>>

\* C1: all-or-nothing.  When scrape() has returned, it returned the content
\* record only if validated is true, and that record is context.content; when
\* the domain is blocked, a stage failed or validated is not true, it
\* returned None.
C1_AllOrNothing ==
    pc = "done" =>
        /\ result.kind \in {"None", "content"}
        /\ result.kind = "content" =>
              /\ context.validated
              /\ result.content = context.content
              /\ failed_stage = 0
              /\ ~context.blocked
        /\ (context.blocked \/ failed_stage # 0 \/ ~context.validated) => result = NoneResult

\* a run that extracted content and then failed in metadata_extraction: None
C1_Witness ==
    /\ pc = "done"
    /\ failed_stage = StageOf("metadata_extraction")
    /\ ContentTruthy(context.content)
    /\ result = NoneResult

\* C2: when the static fetch returned a document that has_meaningful_content
\* accepts, static_failed stays unset, the dynamic stage (once executed)
\* reports skipped, get_page_content of the browser is never invoked and no
\* browser is created in the run.
C2_NoRenderForMeaningfulPage ==
    (pc \in {"running", "done"} /\ has_meaningful_content(static_doc)) =>
        /\ ~context.static_failed
        /\ fetch_log = <<>>
        /\ created = 0
        /\ calls[StageOf("dynamic_scraping")] > 0 =>
              /\ context.results[StageOf("dynamic_scraping")] = "skipped"
              /\ context.dynamic_skipped

\* a meaningful page that the JavaScript heuristic flags, run to the end
C2_Witness ==
    /\ pc = "done"
    /\ has_meaningful_content(static_doc)
    /\ static_doc.js
    /\ context.results[StageOf("dynamic_scraping")] = "skipped"
    /\ result.kind = "content"

EscalatingDoc == Truthy(static_doc) /\ ~has_meaningful_content(static_doc) /\ static_doc.js

\* C3: when the static fetch returned a document that is not meaningful and
\* requires JavaScript, the dynamic stage is not skipped, and content
\* extraction starts only after get_page_content of the browser was invoked
\* and the dynamic stage stored its result.
C3_Escalation ==
    (pc \in {"running", "done"} /\ EscalatingDoc) =>
        /\ context.static_failed
        /\ calls[StageOf("dynamic_scraping")] > 0 =>
              /\ ~context.dynamic_skipped
              /\ context.results[StageOf("dynamic_scraping")] # "skipped"
        /\ calls[StageOf("content_extraction")] > 0 =>
              /\ fetch_log # <<>>
              /\ context.results[StageOf("dynamic_scraping")] = "success"
              /\ context.soup.src = "dynamic"

C3_Witness ==
    /\ EscalatingDoc
    /\ calls[StageOf("content_extraction")] > 0
    /\ Len(fetch_log) = 1
    /\ fetch_log[1].live

\* C4: when domain_analysis finds the domain blocked it sets
\* skip_remaining_stages, no later processor is invoked, nothing is retried
\* and scrape() returns None.
C4_BlocklistShortCircuit ==
    (pc \in {"running", "done"} /\ is_blocked(extract_domain(context.url))
       /\ calls[StageOf("domain_analysis")] > 0) =>
        /\ context.blocked
        /\ context.skip_remaining_stages
        /\ calls[StageOf("domain_analysis")] = 1
        /\ LaterStagesNotRun(StageOf("domain_analysis"))
        /\ \A i \in StageIdx : NoSleepAt(i)
        /\ fetch_log = <<>> /\ created = 0
        /\ pc = "done"
        /\ result = NoneResult

C4_Witness ==
    /\ pc = "done"
    /\ context.url = MsnbcUrl
    /\ context.blocked
    /\ result = NoneResult

DynamicAlwaysFailed ==
    /\ pc \in {"running", "done"}
    /\ calls[StageOf("dynamic_scraping")] > 0
    /\ context.results[StageOf("dynamic_scraping")] = "absent"

\* C5: while every attempt of the dynamic_scraping processor has failed, the
\* failure is never handled (the run stays in the stage or ends), the
\* processor has been invoked at most 1 + min(2, max_retries) times, no later
\* stage has run, and when the run ends the stage failed after exactly that
\* many invocations and scrape() returned None.
C5_DynamicFailureFatal ==
    DynamicAlwaysFailed =>
        /\ calls[StageOf("dynamic_scraping")] <= 1 + Min(2, max_retries)
        /\ LaterStagesNotRun(StageOf("dynamic_scraping"))
        /\ context.dynamic_failed
        /\ pc = "running" =>
              /\ stage = StageOf("dynamic_scraping")
              /\ attempt = calls[StageOf("dynamic_scraping")]
        /\ pc = "done" =>
              /\ failed_stage = StageOf("dynamic_scraping")
              /\ calls[StageOf("dynamic_scraping")] = 1 + Min(2, max_retries)
              /\ result = NoneResult

C5_Witness ==
    /\ pc = "done"
    /\ max_retries = 1
    /\ failed_stage = StageOf("dynamic_scraping")
    /\ calls[StageOf("dynamic_scraping")] = 2
    /\ result = NoneResult

StaticRaised ==
    /\ pc \in {"running", "done"}
    /\ calls[StageOf("static_scraping")] > 0
    /\ context.results[StageOf("static_scraping")] = "absent"

-----------------------------------------------------------------------------
(* Properties of PipelineStage.execute *)

RECURSIVE Pow2(_)
Pow2(k) == IF k = 0 THEN 1 ELSE 2 * Pow2(k - 1)

\* C7: a stage with initial retry delay d <= 30 and n retry attempts whose
\* processor has failed unhandled at every invocation has slept once per
\* invocation up to n times, the k-th sleep lasting min(d * 2^(k-1), 30); it
\* fails exactly at invocation n + 1, after n sleeps, and never succeeds; with
\* d = 2 and n = 3 the sleeps are 2, 4, 8.
C7_RetryBackoff ==
    (st.allfail /\ st.d0 <= MaxRetryDelay) =>
        /\ Len(st.sleeps) = Min(st.calls, st.n)
        /\ \A k \in 1..Len(st.sleeps) :
              /\ st.sleeps[k] = Min(st.d0 * Pow2(k - 1), MaxRetryDelay)
              /\ st.sleeps[k] <= MaxRetryDelay
        /\ st.ret # "True"
        /\ st.ret = "False" <=> st.calls = st.n + 1
        /\ (st.ret = "False" /\ st.d0 = 2 /\ st.n = 3) => st.sleeps = <<2, 4, 8>>

C7_Witness ==
    /\ st.allfail
    /\ st.execs = 1 /\ st.d0 = DefaultRetryDelay /\ st.n = 3
    /\ st.ret = "False"
    /\ st.sleeps = <<2, 4, 8>>

-----------------------------------------------------------------------------
(* Properties of the browser handle *)

\* C8 (as stated): every fetch that reaches the driver runs on a live, newly
\* created browser, and no document, and so no result, comes from a torn-down
\* handle.
C8_LazyRecreation ==
    /\ \A k \in 1..Len(fetch_log) :
          fetch_log[k].navigated => (fetch_log[k].live /\ fetch_log[k].fresh)
    /\ context.soup.src = "dynamic" => context.soup.handle # 0
    /\ (result.kind = "content" /\ context.soup.src = "dynamic") => context.soup.handle # 0

\* C9: cleanup never raises, the quit of a browser is requested at most once
\* per DynamicScraper, after a cleanup the driver reference is None, and a
\* further cleanup, whether or not its quit would fail, changes nothing.
C9_IdempotentCleanup ==
    /\ ~ds.raised
    /\ \A i \in 1..Len(ds.objs) :
          /\ ds.objs[i].quits <= 1
          /\ ds.cleanups[i] > 0 => ds.objs[i].driver = 0
          /\ ds.objs[i].driver = 0 =>
                \A q \in BOOLEAN : dynamic_cleanup(ds.objs[i], q) = ds.objs[i]
          /\ \A q1 \in BOOLEAN, q2 \in BOOLEAN :
                dynamic_cleanup(dynamic_cleanup(ds.objs[i], q1), q2)
                    = dynamic_cleanup(ds.objs[i], q1)

\* a browser whose quit failed, cleaned up again and then finalized
C9_Witness ==
    \E i \in 1..Len(ds.objs) :
        /\ ds.cleanups[i] >= 3
        /\ ds.finalized[i]
        /\ ds.objs[i].quits = 1
        /\ ds.objs[i].live

\* the second scrape() on one pipeline returns a validated record taken from
\* the document of a DynamicScraper whose driver is None
C8_Witness ==
    /\ runs = 2
    /\ pc = "done"
    /\ created = 0
    /\ context.soup.src = "dynamic" /\ context.soup.handle = 0
    /\ result.kind = "content"
    /\ result.content.text = ""

-----------------------------------------------------------------------------
(* Properties of concurrent analyses *)

\* C10 (as stated): a browser instance is used by at most one in-flight
\* analysis at a time: no task navigates, reads or tears down an instance that
\* another task, still in flight, has constructed or used.
C10_BrowserIsolation ==
    \A i \in 1..Len(an.insts) :
        /\ ~an.insts[i].foreign
        /\ an.insts[i].scraper.driver # 0 =>
              Cardinality({u \in an.insts[i].users : InFlight(an, u)}) <= 1

\* two analyses in flight, both of which have searched with the same running
\* browser of the singleton
C10_Witness ==
    /\ an.google # 0
    /\ an.insts[an.google].scraper.driver # 0
    /\ an.insts[an.google].users = {1, 2}
    /\ InFlight(an, 1) /\ InFlight(an, 2)

-----------------------------------------------------------------------------
(* Properties of the stage sequence *)

C11_Step ==
    /\ (pc = "running" /\ pc' = "running") =>
          \/ stage' = stage
          \/ /\ stage' = stage + 1
             /\ failed_stage' = 0
             /\ calls'[stage] >= 1
    /\ \A j \in StageIdx :
          calls'[j] > calls[j] =>
              /\ pc = "running" /\ j = stage
              /\ calls'[j] = calls[j] + 1
              /\ \A k \in StageIdx : k < j => calls[k] >= 1
              /\ \A k \in StageIdx : k > j => calls[k] = 0
    /\ failed_stage' # 0 => pc' = "done"

\* C11: in every step of a run, the only processor invoked is that of the
\* current stage, every earlier stage of the fixed sequence has been invoked
\* and no later one has; the current stage changes only to its successor, in
\* a step in which its execute returned success, so no stage is entered twice
\* and a failed stage ends the run.
C11_FixedStageOrder == [][C11_Step]_vars

\* a run through all seven stages, the dynamic stage being retried on the way
C11_Witness ==
    /\ pc = "done"
    /\ \A j \in StageIdx : calls[j] >= 1
    /\ calls[StageOf("dynamic_scraping")] = 2
    /\ result.kind = "content"

-----------------------------------------------------------------------------
(* Properties of MetadataExtractor.extract_metadata *)

\* C12: a field among headline, author and publishDate that is non-empty in
\* the input record has the same value in the record extract_metadata
\* returns, whatever the HTML strategies and the NER fallback find and
\* whatever the other fields hold.
C12_MetadataNeverOverwrites ==
    fn.applied =>
        \A f \in MetadataFields :
            (ContentTruthy(fn.content) /\ fn.content[f] # "") => fn.out[f] = fn.content[f]

\* headline given, both tiers find another headline, and NER does run (it
\* fills the author): the headline is the one given
C12_Witness ==
    /\ fn.applied
    /\ fn.content.headline = "X" /\ fn.content.author = ""
    /\ fn.soup.body = "page"
    /\ fn.env.html.headline = "H" /\ fn.env.ner.headline = "N" /\ fn.env.ner_ok
    /\ fn.out.author = "M"
    /\ fn.out.headline = "X"

-----------------------------------------------------------------------------
(* Properties of normalise_url *)

\* the query parameters of a URL, in order: what stands between "?" and "#",
\* split at "&"
QueryParams(url) ==
    LET u == split(url, "#")[1]
    IN IF IndexOf(u, "?") = 0 THEN <<>> ELSE split(split1(u, "?")[2], "&")

\* C17 (as stated): normalising twice yields the same as normalising once
C17_Idempotent ==
    fn.applied = 2 => fn.again = fn.out

\* a URL with two trailing slashes has been normalised twice, and the second
\* call removed what the first one left
C17_Witness ==
    /\ fn.applied = 2
    /\ fn.url = UrlBase \o <<"/", "/">>
    /\ fn.out = UrlBase \o <<"/">>
    /\ fn.again = UrlBase

\* the name of a query parameter: what stands before its first "=", or all of
\* it when it has none
ParamName(param) ==
    IF IndexOf(param, "=") # 0 THEN split1(param, "=")[1] ELSE param

\* a name that is fbclid or gclid or begins with utm_, whatever its casing
IsTrackingName(name) ==
    \/ lower(name) \in { <<"f","b","c","l","i","d">>, <<"g","c","l","i","d">> }
    \/ startswith(lower(name), <<"u","t","m","_">>)

\* C18 (as stated): the result of normalise_url holds no query parameter whose
\* name, compared case-insensitively, is fbclid, gclid or begins with utm_
C18_TrackingRemoved ==
    fn.applied >= 1 =>
        \A i \in 1..Len(QueryParams(fn.out)) :
            ~IsTrackingName(ParamName(QueryParams(fn.out)[i]))

\* a URL whose only parameter is utm_id=1 has been normalised and the
\* parameter is still there
C18_Witness ==
    /\ fn.applied = 1
    /\ fn.url = UrlBase \o <<"?">> \o <<"u","t","m","_","i","d","=","1">>
    /\ fn.out = fn.url

-----------------------------------------------------------------------------
(* Properties of one search call *)

\* C13 (as stated): no two results of one search call have URLs that are
\* equal after normalise_url
C13_DedupByNormalisedUrl ==
    fn.applied =>
        \A i, j \in 1..Len(fn.results) :
            i # j => normalise_url(fn.results[i].url) # normalise_url(fn.results[j].url)

\* a page offers the same article twice, once with a tracking parameter, and
\* the search returns both
C13_Witness ==
    /\ fn.applied /\ fn.fetched
    /\ Len(fn.results) = 2
    /\ fn.results[1].url # fn.results[2].url
    /\ normalise_url(fn.results[1].url) = normalise_url(fn.results[2].url)

\* C14: when an original URL is given, no result has a URL whose normalised
\* form equals the normalised original URL, and no result has the domain
\* (lower-cased, www. removed) of the original article.
C14_OriginFiltering ==
    (fn.applied /\ fn.original_url # <<>>) =>
        \A i \in 1..Len(fn.results) :
            /\ normalise_url(fn.results[i].url) # normalise_url(fn.original_url)
            /\ extract_domain_str(fn.results[i].url) # extract_domain_str(fn.original_url)

\* a page begins with the original article under a tracking parameter, then
\* another article of the original's domain written in upper case, then an
\* article of another domain: the search returns the last one only
C14_Witness ==
    /\ fn.applied /\ fn.fetched
    /\ fn.original_url = OriginalUrl
    /\ Len(fn.news_items) = 3
    /\ normalise_url(fn.news_items[1].href) = normalise_url(OriginalUrl)
    /\ normalise_url(fn.news_items[2].href) # normalise_url(OriginalUrl)
    /\ extract_domain_str(fn.news_items[2].href) = extract_domain_str(OriginalUrl)
    /\ fn.news_items[2].href # lower(fn.news_items[2].href)
    /\ Len(fn.results) = 1
    /\ fn.results[1].url = fn.news_items[3].href

\* the URL a news item stands for
ItemUrl(item) ==
    IF is_redirect(item.href) THEN extract_url_from_redirect(item.href) ELSE item.href

\* C15 (as stated): for every num_results >= 0 the returned list holds at most
\* num_results entries, and when it holds num_results entries the last item
\* examined is the one that gave the last of them
C15_ResultCap ==
    fn.applied =>
        /\ Len(fn.results) <= fn.num_results
        /\ (fn.fetched /\ fn.num_results >= 1 /\ Len(fn.results) = fn.num_results) =>
              ItemUrl(fn.news_items[fn.examined]) = fn.results[Len(fn.results)].url

\* a search for 0 results on a page with an acceptable item returns one result
C15_Witness ==
    /\ fn.applied /\ fn.fetched
    /\ fn.num_results = 0
    /\ Len(fn.news_items) >= 2
    /\ Len(fn.results) = 1
    /\ fn.examined = 1

-----------------------------------------------------------------------------
(* Properties of the date window *)

\* the whole days elapsed from a to b: the k with k days <= b - a < k + 1 days
WholeDays(a, b) ==
    CHOOSE k \in -(MaxAge + 2)..(MaxAge + 2) :
        /\ k * 86400 <= (b.ord - a.ord) * 86400 + (b.sec - a.sec)
        /\ (b.ord - a.ord) * 86400 + (b.sec - a.sec) < (k + 1) * 86400

-----------------------------------------------------------------------------
(* Properties of the record scrape() returns *)

-----------------------------------------------------------------------------
(* Properties of the retry delay across runs *)

\* C20 (as stated): in every scrape() run on one ScrapingPipeline, the first
\* retry sleep of each stage equals the stage's configured initial delay
\* (2, or 3 for dynamic_scraping)
C20_NoDelayLeak ==
    \A i \in StageIdx :
        sleeps[i] # <<>> => sleeps[i][1] = InitialRetryDelay(StageNames[i])

\* the dynamic stage slept 3 and 6 in the first run; in the second run its
\* first retry sleep is 12
C20_Witness ==
    /\ runs = 2
    /\ max_retries = DefaultMaxRetries
    /\ sleeps[StageOf("dynamic_scraping")] # <<>>
    /\ sleeps[StageOf("dynamic_scraping")][1] = 12

-----------------------------------------------------------------------------
(* Properties of the retry loop within a run *)

\* the invocations of each stage's processor stay within its budget, a stage
\* that failed used all of it, and what scrape() returned is a record or None
BoundedRetryState ==
    /\ \A i \in StageIdx :
          /\ calls[i] <= RetryAttempts(StageNames[i], max_retries) + 1
          /\ failed_stage = i => calls[i] = RetryAttempts(StageNames[i], max_retries) + 1
    /\ pc = "done" => result.kind \in {"None", "content"}

\* C21: a stage with retry budget n has its processor invoked at most n + 1
\* times in one execute call; a stage whose every attempt failed unhandled was
\* invoked exactly n + 1 times and execute returned failure; and every run of
\* scrape() terminates.
C21_BoundedRetry ==
    /\ []BoundedRetryState
    /\ (pc = "running") ~> (pc = "done")

\* metadata_extraction (budget 1) failed on both attempts and the run ended
C21_Witness ==
    /\ pc = "done"
    /\ failed_stage = StageOf("metadata_extraction")
    /\ calls[StageOf("metadata_extraction")] = 2
    /\ sleeps[StageOf("metadata_extraction")] # <<>>
    /\ result = NoneResult

-----------------------------------------------------------------------------
(* Properties of the stage boundary *)

-----------------------------------------------------------------------------
(* Properties of the escalation flags *)

\* C23 (as stated): once the static_scraping stage has ended, static_failed
\* and requires_dynamic are both set or both unset
C23_FlagsMoveTogether ==
    (pc \in {"running", "done"} /\ calls[StageOf("static_scraping")] > 0
        /\ (stage > StageOf("static_scraping") \/ pc = "done")) =>
        context.static_failed = context.requires_dynamic

\* the static fetch raised something other than a RequestException; the
\* handler absorbed it and set static_failed alone
C23_Witness ==
    /\ pc = "running"
    /\ stage = StageOf("dynamic_scraping")
    /\ calls[StageOf("dynamic_scraping")] = 0
    /\ StaticRaised
    /\ context.static_failed
    /\ ~context.requires_dynamic

-----------------------------------------------------------------------------
(* Properties of the document handle *)

\* content_extraction or metadata_extraction has been invoked in this run
ExtractionRead ==
    /\ pc \in {"running", "done"}
    /\ calls[StageOf("content_extraction")] > 0

\* C24: the document the extraction stages read is the one the last
\* successful fetch stage of this run stored: when the dynamic stage was
\* skipped, the document of this run's static fetch, unchanged; otherwise the
\* document of this run's last dynamic fetch, never the static one of the
\* failed attempt.
C24_DocumentReplaced ==
    ExtractionRead =>
        /\ Truthy(context.soup)
        /\ context.dynamic_skipped =>
              /\ context.soup = static_doc
              /\ context.soup.src = "static"
              /\ fetch_log = <<>>
        /\ ~context.dynamic_skipped =>
              /\ context.static_failed
              /\ context.soup.src = "dynamic"
              /\ fetch_log # <<>>
              /\ context.soup.handle = fetch_log[Len(fetch_log)].driver

\* the static fetch stored a JavaScript-only page, the dynamic stage failed
\* once and fetched on its retry, and the extraction has read the dynamic
\* document
C24_Witness ==
    /\ ExtractionRead
    /\ Truthy(static_doc) /\ static_doc.js
    /\ sleeps[StageOf("dynamic_scraping")] # <<>>
    /\ context.soup.src = "dynamic"
    /\ context.soup # static_doc

-----------------------------------------------------------------------------
(* Properties of content_validation *)

\* content_validation has been invoked in this run
Validated == pc = "done" /\ calls[StageOf("content_validation")] > 0

\* C25: content_validation never raises (it is invoked once, stores a result
\* and the stage does not fail); it sets validated exactly when there is a
\* content record, whatever the headline, author, date and text hold.
C25_ValidationNeverFails ==
    Validated =>
        /\ calls[StageOf("content_validation")] = 1
        /\ failed_stage = 0
        /\ context.results[StageOf("content_validation")] # "absent"
        /\ context.validated <=> ContentTruthy(context.content)
        /\ context.validated => result.kind = "content"

\* a record with no headline, author, date or text has been validated and
\* returned
C25_Witness ==
    /\ Validated
    /\ ContentTruthy(context.content)
    /\ context.content.headline = "" /\ context.content.author = ""
    /\ context.content.publishDate = "" /\ context.content.text = ""
    /\ context.validated
    /\ result.kind = "content"

-----------------------------------------------------------------------------
(* Properties of the tier chains *)

\* the value of the first tier that found one, "" when none did
RECURSIVE FirstValue(_, _, _)
FirstValue(names, found, k) ==
    IF k > Len(names) THEN ""
    ELSE IF found[k] = "value" THEN names[k]
    ELSE FirstValue(names, found, k + 1)

\* C26 (as stated): each field takes the value of the first tier that yields
\* a non-empty value, and is left empty only when every tier yielded nothing
C26_TierFallThrough ==
    fn.applied => fn.out[fn.field] = FirstValue(TiersOf(fn.field), fn.found, 1)

\* the page has an empty element matching a headline selector and a <title>
\* with text: the headline is left empty
C26_Witness ==
    /\ fn.applied
    /\ fn.field = "headline"
    /\ fn.found = <<"absent", "absent", "blank", "absent", "absent", "value">>
    /\ fn.out.headline = ""

-----------------------------------------------------------------------------
(* Properties of the NER fallback *)

\* the record after the three HTML extractors of the call in fn
AfterHtml ==
    html_tier(IF ContentTruthy(fn.content) THEN fn.content ELSE [NoContent EXCEPT !.kind = "dict"],
              fn.soup, fn.env.html)

NerCalls == {i \in 1..Len(fn.steps) : fn.steps[i] = "nlp"}

\* C27: in one extract_metadata call the NER pass runs at most once, only
\* after the HTML extractors of all three fields, only if one of headline,
\* author, publishDate is still empty then, and it changes only the fields
\* that were empty at that point.
C27_NerOnceWhenNeeded ==
    fn.applied =>
        /\ Cardinality(NerCalls) <= 1
        /\ \A i \in NerCalls :
              /\ \A e \in {"_extract_headline", "_extract_author", "_extract_publication_date"} :
                    \E j \in 1..(i - 1) : fn.steps[j] = e
              /\ missing_fields(AfterHtml) # {}
        /\ \A f \in MetadataFields :
              \/ fn.out[f] = AfterHtml[f]
              \/ NerCalls # {} /\ AfterHtml[f] = "" /\ fn.out[f] = fn.env.ner[f]

\* the HTML extractors found the headline only; the NER pass ran once, found
\* all three fields, and filled author and date but left the headline
C27_Witness ==
    /\ fn.applied
    /\ fn.content = NoContent
    /\ fn.env.html = [headline |-> "H", author |-> "", publishDate |-> ""]
    /\ fn.env.ner = [headline |-> "N", author |-> "M", publishDate |-> "E"]
    /\ Cardinality(NerCalls) = 1
    /\ fn.out.headline = "H" /\ fn.out.author = "M" /\ fn.out.publishDate = "E"

-----------------------------------------------------------------------------
(* Properties of the blacklist *)

\* a domain on the blacklist, or a subdomain of one
OnBlacklist(domain) ==
    \E b \in blacklisted_domains :
       \/ domain = b
       \/ \E k \in 1..Len(domain) : SubSeq(domain, k, Len(domain)) = <<".">> \o b

\* C28 (as stated): no result of a search has a domain on the blacklist, and
\* the blacklist check discards no candidate whose domain is not on the
\* blacklist
C28_BlacklistFiltering ==
    (fn.applied /\ fn.fetched) =>
        /\ \A i \in 1..Len(fn.results) : ~OnBlacklist(extract_domain_str(fn.results[i].url))
        /\ \A i \in 1..Len(fn.news_items) :
              LET url == ItemUrl(fn.news_items[i])
              IN (fn.news_items[i].link /\ startswith(url, <<"h","t","t","p">>)
                    /\ ~OnBlacklist(extract_domain_str(url)))
                 => ~is_blacklisted(url)

\* the page holds one candidate, on the domain d.co, with youtube.com in its
\* path; no original article is given and one result is asked for: the search
\* returns nothing
C28_Witness ==
    /\ fn.applied /\ fn.fetched
    /\ fn.original_url = <<>>
    /\ fn.num_results = 1
    /\ Len(fn.news_items) = 1
    /\ fn.news_items[1].link
    /\ extract_domain_str(ItemUrl(fn.news_items[1])) = <<"d",".","c","o">>
    /\ fn.results = <<>>

-----------------------------------------------------------------------------
(* Properties of a failing search *)

\* something failed before any document could be harvested
SearchFailed ==
    fn.env.build_raises \/ fn.env.browser # "ok" \/ fn.env.find_all_raises

\* C29: whatever fails inside a search (the browser cannot be created, the
\* navigation or the page read raises, handling an item raises),
\* search_news and search_for_articles return a list and never raise; the list
\* is empty when nothing could be harvested, and an item that raises only
\* loses that item.
C29_FailureIsEmptyList ==
    fn.applied =>
        /\ fn.news.kind = "list" /\ fn.out.kind = "list"
        /\ fn.out.results = fn.news.results
        /\ SearchFailed => fn.out.results = <<>>
        /\ \A i \in 1..Len(fn.out.results) :
              \E item \in BrowserItems : ~item_raises(item) /\ fn.out.results[i].url = item.href

\* the browser could not be created: both calls return the empty list
C29_Witness ==
    /\ fn.applied
    /\ fn.env.browser = "none"
    /\ ~fn.env.build_raises
    /\ fn.news = ListResult(<<>>, <<>>)
    /\ fn.out = ListResult(<<>>, <<>>)

-----------------------------------------------------------------------------
(* Properties of the consent page *)

\* how often a call was made on the DynamicScraper
CallCount(name) == Cardinality({i \in 1..Len(fn.out.calls) : fn.out.calls[i] = name})

\* what _extract_results harvests from a document in the search in fn
Harvest(news_items) ==
    extract_results_of(news_items, fn.env.find_all_raises, fn.original_url, fn.num_results)

\* the search got as far as reading the browser's address
BrowserAnswered == ~fn.env.build_raises /\ fn.env.browser = "ok"

\* C30: in one search the consent routine is called at most once, and only
\* when the browser ended on a consent page; if it succeeds the page is read
\* again and the results come from that second document; if it fails the
\* results come from the document fetched first; the search returns a list
\* either way.
C30_ConsentOneShot ==
    fn.applied =>
        /\ CallCount("check_for_cookie_consent") <= 1
        /\ CallCount("check_for_cookie_consent") = 1 => (BrowserAnswered /\ fn.env.on_consent)
        /\ CallCount("get_page_soup") = 1 => CallCount("check_for_cookie_consent") = 1
        /\ (BrowserAnswered /\ fn.env.on_consent) =>
              /\ CallCount("check_for_cookie_consent") = 1
              /\ fn.out.kind = "list"
              /\ fn.env.dismissed =>
                    /\ CallCount("get_page_soup") = 1
                    /\ fn.out.results = Harvest(fn.env.reread)
              /\ ~fn.env.dismissed =>
                    /\ CallCount("get_page_soup") = 0
                    /\ fn.out.results = Harvest(fn.env.first)

\* the browser ended on a consent page whose document holds one item; the
\* dismissal succeeded and the document read again holds another item: the
\* search returns that other item
C30_Witness ==
    /\ fn.applied
    /\ BrowserAnswered /\ fn.env.on_consent /\ fn.env.dismissed
    /\ ~fn.env.find_all_raises
    /\ Len(fn.env.first) = 1 /\ Len(fn.env.reread) = 1
    /\ fn.out.calls = <<"get_page_content", "check_for_cookie_consent", "get_page_soup">>
    /\ Len(fn.out.results) = 1
    /\ fn.out.results[1].url = fn.env.reread[1].href
    /\ fn.out.results[1].url # fn.env.first[1].href

-----------------------------------------------------------------------------
(* Properties of the body text *)

\* the positions of the semantic elements that are not noise
Candidates == {i \in 1..Len(fn.doc.elements) : ~fn.doc.elements[i].noise}

\* the longest of them
LongestCandidates ==
    {i \in Candidates : \A j \in Candidates : fn.doc.elements[j].len <= fn.doc.elements[i].len}

\* C31 (as stated): the text returned is that of the longest non-noise
\* semantic candidate when it has at least 300 characters; otherwise it is
\* the paragraphs longer than 40 characters, in document order, joined by
\* blank lines, the empty string when there are none
C31_BodyTextFallback ==
    fn.applied =>
        IF \E i \in LongestCandidates : fn.doc.elements[i].len >= MinContentLength
        THEN \E i \in LongestCandidates : fn.out = <<ElementText(i, fn.doc.elements[i])>>
        ELSE /\ \A j \in 1..Len(fn.out) : fn.out[j].of = "p" /\ fn.out[j].len > MinParagraphLength
             /\ \A j \in 1..(Len(fn.out) - 1) : fn.out[j].at < fn.out[j + 1].at
             /\ \A i \in 1..Len(fn.doc.paragraphs) :
                   fn.doc.paragraphs[i] > MinParagraphLength
                   => \E j \in 1..Len(fn.out) : fn.out[j] = ParagraphText(i, fn.doc.paragraphs[i])

\* the document holds an <article> of 299 characters, a <main> of 300 and no
\* paragraph: the text returned is empty
C31_Witness ==
    /\ fn.applied
    /\ fn.doc.elements = <<[tag |-> "article", noise |-> FALSE, len |-> MinContentLength - 1],
                           [tag |-> "main", noise |-> FALSE, len |-> MinContentLength]>>
    /\ fn.doc.paragraphs = <<>>
    /\ fn.out = <<>>

-----------------------------------------------------------------------------
(* Properties of the status store *)

\* C32 (as stated): every status update emitted on behalf of an analysis is
\* written to the record of that analysis and to no other, and none is
\* dropped because another analysis started or finished: a record holds the
\* status stored at its creation or one emitted by its own analysis, and once
\* an analysis runs, the latest status it emitted
C32_StatusIsolation ==
    \A t \in Tasks :
        /\ an.status[t].by \in {0, t}
        /\ an.pc[t] \notin {"none", "start"} =>
              an.status[t] = [by |-> t, message |-> an.pc[t]]

\* analysis 2 started while analysis 1 was waiting for the LLM, and the
\* next update of analysis 1 went to the record of analysis 2
C32_Witness ==
    /\ InFlight(an, 1) /\ InFlight(an, 2)
    /\ an.status[2].by = 1
    /\ an.status[1] # [by |-> 1, message |-> an.pc[1]]

-----------------------------------------------------------------------------
(* Properties of a run that reaches validation *)

\* C33: in a run where the domain is not blocked and no stage up to
\* content_cleaning failed, content_validation is invoked, sets validated, and
\* scrape returns the record, whatever its text; so scrape returns None only
\* when the domain is blocked or a stage used up its retries.
C33_ReachingValidationSucceeds ==
    pc = "done" =>
        /\ (~context.blocked /\ failed_stage = 0) =>
              /\ \A i \in StageIdx : calls[i] > 0
              /\ context.validated
              /\ result.kind = "content"
              /\ result.content = context.content
        /\ result = NoneResult => (context.blocked \/ failed_stage # 0)
        /\ failed_stage # 0 =>
              calls[failed_stage] = RetryAttempts(StageNames[failed_stage], max_retries) + 1

\* a run whose extraction found a headline but no text went through every
\* stage and returned the record with the empty text
C33_Witness ==
    /\ pc = "done"
    /\ ~context.blocked /\ failed_stage = 0
    /\ calls[StageOf("content_cleaning")] = 1
    /\ calls[StageOf("content_validation")] = 1
    /\ result.kind = "content"
    /\ result.content.text = ""
    /\ result.content.headline # ""

-----------------------------------------------------------------------------
(* Properties of a page without a JavaScript signal *)

\* the static fetch returned a document that is neither meaningful nor
\* flagged as requiring JavaScript
ThinDoc == Truthy(static_doc) /\ ~has_meaningful_content(static_doc) /\ ~static_doc.js

\* C34: for such a document the static stage succeeds with static_failed
\* unset, the dynamic stage is skipped without touching the browser, and the
\* extraction runs on the static document.
C34_NoEscalationWithoutSignal ==
    (pc \in {"running", "done"} /\ ThinDoc) =>
        /\ context.results[StageOf("static_scraping")] = "success"
        /\ calls[StageOf("static_scraping")] = 1
        /\ failed_stage # StageOf("static_scraping")
        /\ ~context.static_failed /\ ~context.requires_dynamic
        /\ fetch_log = <<>> /\ created = 0
        /\ calls[StageOf("dynamic_scraping")] > 0 =>
              /\ calls[StageOf("dynamic_scraping")] = 1
              /\ context.results[StageOf("dynamic_scraping")] = "skipped"
              /\ context.dynamic_skipped
        /\ calls[StageOf("content_extraction")] > 0 =>
              /\ context.soup = static_doc
              /\ context.soup.src = "static"

\* a page that is neither meaningful nor flagged went through the skipped
\* dynamic stage and the extraction, and the run returned a record
C34_Witness ==
    /\ pc = "done"
    /\ ThinDoc
    /\ context.dynamic_skipped
    /\ calls[StageOf("content_extraction")] = 1
    /\ context.soup = static_doc
    /\ result.kind = "content"

-----------------------------------------------------------------------------
(* Properties of the start of extraction *)

\* content_extraction or metadata_extraction has been invoked
ExtractionStarted ==
    /\ pc \in {"running", "done"}
    /\ \/ calls[StageOf("content_extraction")] > 0
       \/ calls[StageOf("metadata_extraction")] > 0

\* C35: whenever a run has reached content_extraction or metadata_extraction
\* the context holds a document, and a fetch stage of this run stored it: the
\* static stage returned with it, or the dynamic stage fetched it and
\* returned.
C35_ExtractionHasDocument ==
    ExtractionStarted =>
        /\ context.soup # NoDoc
        /\ \/ /\ context.soup.src = "static"
              /\ context.soup = static_doc
              /\ context.results[StageOf("static_scraping")] \in {"success", "failed"}
           \/ /\ context.soup.src = "dynamic"
              /\ context.results[StageOf("dynamic_scraping")] = "success"
        /\ \A i \in {StageOf("static_scraping"), StageOf("dynamic_scraping")} :
              calls[i] > 0 /\ failed_stage # i

\* the static fetch returned no document, the handler let the run go on, the
\* browser fetched one, and metadata_extraction has been invoked with it
C35_Witness ==
    /\ pc \in {"running", "done"}
    /\ calls[StageOf("metadata_extraction")] > 0
    /\ static_doc = NoDoc
    /\ context.results[StageOf("static_scraping")] = "absent"
    /\ context.soup.src = "dynamic"

-----------------------------------------------------------------------------
(* Properties of the browser after a dynamic fetch *)

\* the pipeline's DynamicScraper refers to a running browser
HoldsLiveBrowser ==
    dynamic_scraper.present /\ dynamic_scraper.driver # 0 /\ dynamic_scraper.live

\* a step in which the dynamic_scraping processor called get_page_content
FetchPerformed == Len(fetch_log') > Len(fetch_log)

\* C36: when an invocation of the dynamic_scraping processor has fetched, then
\* as it returns or raises the DynamicScraper's driver reference is None and,
\* if the fetch ran on a browser, the quit of that browser has been requested;
\* when scrape() has returned and between runs the pipeline refers to no
\* browser.
C36_NoBrowserOutlivesFetch ==
    /\ [][FetchPerformed =>
             /\ dynamic_scraper'.driver = 0
             /\ fetch_log'[Len(fetch_log')].driver # 0 => dynamic_scraper'.quits = 1]_vars
    /\ [](pc \in {"idle", "done"} => ~HoldsLiveBrowser /\ dynamic_scraper.driver = 0)

\* a run that fetched on a newly created browser has returned its record
C36_Witness ==
    /\ pc = "done"
    /\ result.kind = "content"
    /\ \E k \in 1..Len(fetch_log) : fetch_log[k].live /\ fetch_log[k].fresh
    /\ dynamic_scraper.present
    /\ dynamic_scraper.driver = 0
    /\ dynamic_scraper.quits = 1

-----------------------------------------------------------------------------
(* Properties of the GoogleSearchScraper singleton *)

\* the searches that constructed a DynamicScraper
Creating == {k \in 1..Len(ds.searches) : ds.searches[k].created}

\* C37: every construction has returned the one object __new__ ever
\* allocated; the DynamicScraper the singleton refers to has a browser whose
\* quit was never requested; every search that found no DynamicScraper, which
\* is so after every cleanup() and teardown, constructed one unless the browser
\* failed to start and used that one, every search that found one constructed
\* none, and nothing but a search constructs one; every DynamicScraper a search
\* used had its driver and no quit requested.
C37_SingletonReinitialises ==
    /\ ds.objects <= 1
    /\ ds.returned \subseteq {ds.instance}
    /\ ds.constructions > 0 => ds.returned = {1}
    /\ ds.dynamic_scraper # 0 =>
          /\ ds.insts[ds.dynamic_scraper].driver # 0
          /\ ds.insts[ds.dynamic_scraper].quits = 0
    /\ Len(ds.insts) = Cardinality(Creating)
    /\ \A k \in 1..Len(ds.searches) :
          LET e == ds.searches[k]
          IN /\ e.created <=> (e.held = 0 /\ e.create_ok)
             /\ e.created => e.used = Cardinality({j \in Creating : j <= k})
             /\ e.held # 0 => e.used = e.held
             /\ e.used # 0 => (e.driver # 0 /\ e.quits = 0)
             /\ e.used = 0 <=> (e.held = 0 /\ ~e.create_ok)

\* a search started a browser, cleanup() quit it, the singleton was
\* constructed again, the next search started a second browser, the teardown
\* of an analysis quit that one, and a third search started a third
C37_Witness ==
    /\ Len(ds.searches) = 3
    /\ \A k \in 1..3 : ds.searches[k].created /\ ds.searches[k].used = k
    /\ ds.insts[1].quits = 1 /\ ds.insts[2].quits = 1
    /\ ds.dynamic_scraper = 3
    /\ ds.constructions = 3
    /\ ds.returned = {1}
    /\ ds.initialised

-----------------------------------------------------------------------------
(* Properties of the outcome of an analysis *)

\* the stored outcome of analysis t agrees with its success flag
ConsistentOutcome(t) ==
    an.store[t].complete =>
        /\ an.store[t].success => an.store[t].result
        /\ ~an.store[t].success => an.store[t].error

\* the last response of /analyse-status for analysis t: once it reports
\* complete it carries a result with success and an error message without
ConsistentResponse(t) ==
    (an.seen[t].code = "200" /\ an.seen[t].complete) =>
        \/ an.seen[t].success = "true" /\ an.seen[t].result = "result"
        \/ an.seen[t].success = "false" /\ an.seen[t].error = "message"

====
